---------------------------- MODULE Spec2Model ----------------------------
(***************************************************************************)
(* A model of wezterm's auxiliary Python tooling, chiefly the CI workflow  *)
(* generator ci/generate-workflows.py.                                     *)
(*                                                                         *)
(* Representation of Python values.                                        *)
(*   A Python str is a sequence of chunks; a chunk is a TLA+ string.  The  *)
(*   strings the code searches, compares, filters or sorts (target names,  *)
(*   container images, runner labels, file paths) are written character by *)
(*   character, one chunk per character.  Text the code only concatenates  *)
(*   and hands to yv (commands, step names) is written in longer chunks,   *)
(*   except that every newline and every double quote is a chunk of its    *)
(*   own, because yv looks for exactly these two characters.               *)
(*   The object None, where a str is expected, is the value None below.    *)
(***************************************************************************)
EXTENDS Integers, Sequences, FiniteSets, TLC

VARIABLES
    v, depth, result, yv_pc,  \* one call of yv(v, depth) and what it returned
    pc,         \* where the script generate-workflows.py is
    idx,        \* the place in TARGETS of the target the loop of generate_actions is at
    runs,       \* how many times the script has run to its end
    calls,      \* how many times a generator function has been called
    targets,    \* the Target objects of the module-level list TARGETS
    fs,         \* the files of the working tree: path -> contents
    emitted,    \* what this process wrote: path -> the jobs the file was rendered from
    matched,    \* the paths glob.glob returned that are still to be removed
    removed,    \* the paths this process removed
    history,    \* the files as they were at the end of each run
    tgt, out, ncalls, \* a Target, the last builder called on it and what it returned
    args,       \* the arguments the Target was constructed with
    prior,      \* the Target and what was returned, as they were before the last call
    kills,      \* the kills of the script so far: where each one struck
    yaml,       \* whether import yaml succeeds in the interpreter that runs the script
    stdout,     \* the workflow names this process has printed
    status,     \* how this process ended: its exit code and the exception it died of
    call,       \* kitty-png.py: the keyword arguments write_chunked was called with
    data,       \* the base64 bytes write_chunked has still to write
    kwargs,     \* the keyword arguments write_chunked still holds in cmd
    written,    \* what was written to sys.stdout.buffer, one entry for each write
    kitty_pc,   \* where the call of write_chunked is
    selection,  \* wezterm-nautilus.py: the files Nautilus asks a menu for
    items,      \* the menu items the extension returned
    item_paths, \* the paths bound to the menu item
    wezterm,    \* whether a wezterm instance is running when the item is activated
    subprocesses, \* the commands of the subprocesses launched, in order
    todo,       \* the paths the loop of the activation handler has still to open
    nautilus_pc \* where the extension is

yv_vars == <<v, depth, result, yv_pc>>
gen_vars == <<pc, idx, runs, calls, targets, fs, emitted, matched, removed, history>>
target_vars == <<tgt, out, ncalls, args, prior>>
crash_vars == <<kills>>
proc_vars == <<yaml, stdout, status>>
kitty_vars == <<call, data, kwargs, written, kitty_pc>>
nautilus_vars == <<selection, items, item_paths, wezterm, subprocesses, todo, nautilus_pc>>
script_vars == <<kitty_vars, nautilus_vars>>
vars == <<yv_vars, gen_vars, target_vars, crash_vars, proc_vars, script_vars>>

-----------------------------------------------------------------------------
(* Bounds of the model *)

\* longest string handed to yv in the specification SpecYv
MaxLen == 4
\* deepest indentation level handed to yv in the specification SpecYv
MaxDepth == 2
\* how many times in succession the script is run in the specification Spec
MaxRuns == 2
\* how many generator functions one process calls in the specification SpecKinds
MaxCalls == 2
\* how many calls are made on one Target in the specifications SpecTarget and SpecNames
MaxBuilderCalls == 2
\* how many times the script is killed in the specification SpecKill
MaxKills == 1

-----------------------------------------------------------------------------
(* Python's str and list operations, as the generator uses them *)

None == <<"<None>">>

\* bool(x) of an Optional[str]: None and "" are falsy
Truthy(x) == x # None /\ x # <<>>

\* a + b + ... for a list of strs
RECURSIVE Concat(_)
Concat(ss) == IF ss = <<>> THEN <<>> ELSE Head(ss) \o Concat(Tail(ss))

\* sep.join(ss)
RECURSIVE Join(_, _)
Join(sep, ss) ==
    IF ss = <<>> THEN <<>>
    ELSE IF Len(ss) = 1 THEN ss[1]
    ELSE ss[1] \o sep \o Join(sep, Tail(ss))

\* sub in s
Contains(s, sub) ==
    \E i \in 0..(Len(s) - Len(sub)) :
        \A j \in 1..Len(sub) : s[i + j] = sub[j]

\* s.replace(c, "") for a one-character c
RECURSIVE Remove(_, _)
Remove(s, c) ==
    IF s = <<>> THEN <<>>
    ELSE IF Head(s) = c THEN Remove(Tail(s), c)
    ELSE <<Head(s)>> \o Remove(Tail(s), c)

\* s.splitlines(): a line ends at "\n", at "\r" or at "\r\n"; the end of the
\* string ends the last line, and no empty line follows a final line end
RECURSIVE SplitFrom(_, _, _)
SplitFrom(s, i, cur) ==
    IF i > Len(s) THEN (IF cur = <<>> THEN <<>> ELSE <<cur>>)
    ELSE IF s[i] = "\n" THEN <<cur>> \o SplitFrom(s, i + 1, <<>>)
    ELSE IF s[i] = "\r" THEN
        <<cur>> \o SplitFrom(s, IF i < Len(s) /\ s[i + 1] = "\n" THEN i + 2 ELSE i + 1, <<>>)
    ELSE SplitFrom(s, i + 1, Append(cur, s[i]))

splitlines(s) == SplitFrom(s, 1, <<>>)

\* a buggy indent: one space per level
IndentOneSpace(d) == [i \in 1..d |-> " "]

\* "  " * depth
Indent(d) == [i \in 1..(2 * d) |-> " "]

-----------------------------------------------------------------------------
(* Python values of several types, as yv receives them *)

PyStr(s)    == [type |-> "str",  b |-> FALSE, n |-> 0, s |-> s]
PyBool(b)   == [type |-> "bool", b |-> b,     n |-> 0, s |-> <<>>]
PyInt(n)    == [type |-> "int",  b |-> FALSE, n |-> n, s |-> <<>>]
PyNone    == [type |-> "NoneType", b |-> FALSE, n |-> 0, s |-> <<>>]

\* the for loop of yv: result = result + "\n" + (f"{indent}{l}" if l else "")
RECURSIVE BlockLines(_, _)
BlockLines(lines, indent) ==
    IF lines = <<>> THEN <<>>
    ELSE <<"\n">> \o (IF Head(lines) # <<>> THEN indent \o Head(lines) ELSE <<>>)
         \o BlockLines(Tail(lines), indent)

\* a buggy yv: the test for a double quote is never true
yvQuotedNoTest(s) == <<"\"">> \o s \o <<"\"">>

yvQuoted(s) ==
    IF Contains(s, <<"\"">>) THEN <<"'">> \o s \o <<"'">>
    ELSE <<"\"">> \o s \o <<"\"">>

\* a buggy yv: None is rendered as YAML's null
yvLiteralNull(x) ==
    IF x.type = "bool" /\ x.b THEN <<"true">>
    ELSE IF x.type = "bool" THEN <<"false">>
    ELSE <<"null">>

yvLiteral(x) ==
    IF x.type = "bool" /\ x.b THEN <<"true">>
    ELSE IF x.type = "bool" THEN <<"false">>
    ELSE <<"nil">>

yv(x, d) ==
    IF x.type \in {"bool", "NoneType"} THEN PyStr(yvLiteral(x))
    ELSE IF x.type = "str" THEN
        IF Contains(x.s, <<"\n">>)
        THEN PyStr(<<"|">> \o BlockLines(splitlines(x.s), Indent(d)))
        ELSE PyStr(yvQuoted(x.s))
    ELSE x

-----------------------------------------------------------------------------
(* Python's dict (insertion ordered) and sorted() *)

\* d[k] = x
DictSet(d, k, x) ==
    IF \E i \in 1..Len(d) : d[i][1] = k
    THEN [i \in 1..Len(d) |-> IF d[i][1] = k THEN <<k, x>> ELSE d[i]]
    ELSE Append(d, <<k, x>>)

\* list(d.keys())
DictKeys(d) == [i \in 1..Len(d) |-> d[i][1]]

\* d[k], for a key that is present
DictGet(d, k) == d[CHOOSE i \in 1..Len(d) : d[i][1] = k][2]

\* the printable ASCII characters in code point order: 32 to 95, and 97 to 126
\* (the grave accent, 96, occurs in no string of the generator)
AsciiLow ==
    <<" ", "!", "\"", "#", "$", "%", "&", "'", "(", ")", "*", "+", ",", "-", ".", "/",
      "0", "1", "2", "3", "4", "5", "6", "7", "8", "9", ":", ";", "<", "=", ">", "?",
      "@", "A", "B", "C", "D", "E", "F", "G", "H", "I", "J", "K", "L", "M", "N", "O",
      "P", "Q", "R", "S", "T", "U", "V", "W", "X", "Y", "Z", "[", "\\", "]", "^", "_">>

AsciiHigh ==
    <<"a", "b", "c", "d", "e", "f", "g", "h", "i", "j", "k", "l", "m", "n", "o",
      "p", "q", "r", "s", "t", "u", "v", "w", "x", "y", "z", "{", "|", "}", "~">>

\* ord(c)
Ord(c) ==
    IF \E i \in 1..Len(AsciiLow) : AsciiLow[i] = c
    THEN 31 + CHOOSE i \in 1..Len(AsciiLow) : AsciiLow[i] = c
    ELSE 96 + CHOOSE i \in 1..Len(AsciiHigh) : AsciiHigh[i] = c

\* a < b for two strs written character by character
RECURSIVE StrLess(_, _)
StrLess(a, b) ==
    IF b = <<>> THEN FALSE
    ELSE IF a = <<>> THEN TRUE
    ELSE IF Head(a) = Head(b) THEN StrLess(Tail(a), Tail(b))
    ELSE Ord(Head(a)) < Ord(Head(b))

\* sorted(ss): insertion of each element after the elements not greater than it
RECURSIVE Insert(_, _)
Insert(x, sorted) ==
    IF sorted = <<>> THEN <<x>>
    ELSE IF StrLess(x, Head(sorted)) THEN <<x>> \o sorted
    ELSE <<Head(sorted)>> \o Insert(x, Tail(sorted))

RECURSIVE Sorted(_)
Sorted(ss) ==
    IF ss = <<>> THEN <<>> ELSE Insert(ss[Len(ss)], Sorted(SubSeq(ss, 1, Len(ss) - 1)))

\* str(x) as an f-string formats a value
Format(x) == IF x.type = "int" THEN <<ToString(x.n)>> ELSE x.s

-----------------------------------------------------------------------------
(* Steps *)

RunStep(name, run, shell, env, condition) ==
    [cls |-> "RunStep", name |-> name, run |-> run, shell |-> shell, env |-> env,
     condition |-> condition, action |-> None, params |-> <<>>, id |-> None]

\* RunStep(name, run) with the defaults shell="bash", env=None, condition=None
RunStepDefault(name, run) == RunStep(name, run, <<"bash">>, <<>>, None)

ActionStep(name, action, params, env, condition, id) ==
    [cls |-> "ActionStep", name |-> name, run |-> None, shell |-> None, env |-> env,
     condition |-> condition, action |-> action, params |-> params, id |-> id]

CacheStep(name, path, key, id) ==
    [ActionStep(name, <<"actions/cache@v4">>,
                <<<<<<"p", "a", "t", "h">>, PyStr(path)>>, <<<<"k", "e", "y">>, PyStr(key)>>>>, <<>>, None, id)
     EXCEPT !.cls = "CacheStep"]

SccacheStep(name) ==
    [ActionStep(name, <<"mozilla-actions/sccache-action@v0.0.5">>, <<>>, <<>>, None, None)
     EXCEPT !.cls = "SccacheStep"]

CheckoutStep(name, submodules, container) ==
    LET params == IF submodules THEN <<<<<<"s", "u", "b", "m", "o", "d", "u", "l", "e", "s">>, PyStr(<<"recursive">>)>>>> ELSE <<>>
        version == IF container # None /\ Contains(container, <<"c", "e", "n", "t", "o", "s", "7">>)
                   THEN <<"v3">> ELSE <<"v4">>
    IN  [ActionStep(name, <<"actions/checkout@">> \o version, params, <<>>, None, None)
         EXCEPT !.cls = "CheckoutStep"]

\* InstallCrateStep(crate, key), version=None
InstallCrateStep(crate, key) ==
    [ActionStep(<<"Install ">> \o crate \o <<" from Cargo">>, <<"baptiste0928/cargo-install@v3">>,
                <<<<<<"c", "r", "a", "t", "e">>, PyStr(crate)>>, <<<<"c", "a", "c", "h", "e", "-", "k", "e", "y">>, PyStr(key)>>>>,
                <<>>, None, None)
     EXCEPT !.cls = "InstallCrateStep"]

Job(runs_on, container, steps, env) ==
    [runs_on |-> runs_on, container |-> container, steps |-> steps, env |-> env]

\* the None that pull_request returns in place of an upload job
NoJob == Job(None, None, <<>>, <<>>)

-----------------------------------------------------------------------------
(* Target *)

\* a buggy constructor: the colons stay in the name
Target_keeps_colons(name, os, container, bootstrap_git, rust_target, continuous_only, app_image, is_tag) ==
    LET given == IF Truthy(name) THEN name
                 ELSE IF Truthy(container) THEN container
                 ELSE os
    IN  [name |-> given, os |-> os, container |-> container,
         bootstrap_git |-> bootstrap_git, rust_target |-> rust_target,
         continuous_only |-> continuous_only, app_image |-> app_image,
         env |-> <<>>, is_tag |-> is_tag]

Target(name, os, container, bootstrap_git, rust_target, continuous_only, app_image, is_tag) ==
    LET given == IF Truthy(name) THEN name
                 ELSE IF Truthy(container) THEN container
                 ELSE os
    IN  [name |-> Remove(given, ":"), os |-> os, container |-> container,
         bootstrap_git |-> bootstrap_git, rust_target |-> rust_target,
         continuous_only |-> continuous_only, app_image |-> app_image,
         env |-> <<>>, is_tag |-> is_tag]

uses_yum(t) == Contains(t.name, <<"f", "e", "d", "o", "r", "a">>) \/ Contains(t.name, <<"c", "e", "n", "t", "o", "s">>)

uses_apt(t) == Contains(t.name, <<"u", "b", "u", "n", "t", "u">>) \/ Contains(t.name, <<"d", "e", "b", "i", "a", "n">>)

uses_apk(t) == Contains(t.name, <<"a", "l", "p", "i", "n", "e">>)

uses_zypper(t) == Contains(t.name, <<"s", "u", "s", "e">>)

\* a buggy needs_sudo: every Target without a container needs sudo
needs_sudo_any_bare(t) == ~Truthy(t.container)

needs_sudo(t) == ~Truthy(t.container) /\ uses_apt(t)

install_system_package(t, name) ==
    LET base == IF uses_yum(t) THEN <<"yum">>
                ELSE IF uses_apt(t) THEN <<"apt-get">>
                ELSE IF uses_apk(t) THEN <<"apk">>
                ELSE <<"zypper">>
        installer == IF needs_sudo(t) THEN <<"sudo -n ">> \o base ELSE base
    IN  IF ~(uses_yum(t) \/ uses_apt(t) \/ uses_apk(t) \/ uses_zypper(t)) THEN <<>>
        ELSE IF uses_apk(t)
        THEN <<RunStepDefault(<<"Install ">> \o name, installer \o <<" add ">> \o name)>>
        ELSE <<RunStepDefault(<<"Install ">> \o name, installer \o <<" install -y ">> \o name)>>

\* install_curl raises TypeError where it evaluates
\* "centos:stream9" in self.container with self.container None
install_curl_raises(t) ==
    /\ \/ uses_yum(t)
       \/ uses_apk(t)
       \/ uses_zypper(t)
       \/ (uses_apt(t) /\ Truthy(t.container))
    /\ t.container = None

install_curl(t) ==
    IF \/ uses_yum(t)
       \/ uses_apk(t)
       \/ uses_zypper(t)
       \/ (uses_apt(t) /\ Truthy(t.container))
    THEN IF Contains(t.container, <<"c", "e", "n", "t", "o", "s", ":", "s", "t", "r", "e", "a", "m", "9">>)
         THEN install_system_package(t, <<"curl-minimal">>)
         ELSE install_system_package(t, <<"curl">>)
    ELSE <<>>

install_openssh_server(t) ==
    (IF uses_yum(t) \/ uses_zypper(t) \/ (uses_apt(t) /\ Truthy(t.container))
     THEN <<RunStepDefault(<<"Ensure /run/sshd exists">>, <<"mkdir -p /run/sshd">>)>>
          \o install_system_package(t, <<"openssh-server">>)
     ELSE <<>>)
    \o (IF uses_apk(t) THEN install_system_package(t, <<"openssh">>) ELSE <<>>)

install_newer_compiler(t) ==
    IF t.name = <<"c", "e", "n", "t", "o", "s", "7">>
    THEN <<RunStepDefault(<<"Install SCL">>, <<"yum install -y centos-release-scl-rh">>),
           RunStepDefault(<<"Update compiler">>,
                          <<"yum install -y devtoolset-9-gcc devtoolset-9-gcc-c++">>)>>
    ELSE <<>>

GIT_VERS == <<"2", ".", "2", "6", ".", "2">>

install_git(t) ==
    IF t.bootstrap_git
    THEN LET pre_reqs ==
                 IF uses_yum(t)
                 THEN <<"yum install -y wget curl-devel expat-devel gettext-devel openssl-devel zlib-devel gcc perl-ExtUtils-MakeMaker make">>
                 ELSE IF uses_apt(t)
                 THEN <<"apt-get install -y wget libcurl4-openssl-dev libexpat-dev gettext libssl-dev libz-dev gcc libextutils-autoinstall-perl make">>
                 ELSE IF uses_zypper(t)
                 THEN <<"zypper install -y wget libcurl-devel libexpat-devel gettext-tools libopenssl-devel zlib-devel gcc perl-ExtUtils-MakeMaker make">>
                 ELSE <<>>
         IN  <<CacheStep(<<"Cache Git installation">>, <<"/usr/local/git">>,
                         t.name \o <<"-", "g", "i", "t", "-">> \o GIT_VERS, None),
               RunStep(<<"Install Git from source">>,
                       pre_reqs
                       \o <<"\n", "if test ! -x /usr/local/git/bin/git ; then", "\n", "    cd /tmp", "\n", "    wget https://github.com/git/git/archive/v">>
                       \o GIT_VERS \o <<".tar.gz", "\n", "    tar xzf v">> \o GIT_VERS
                       \o <<".tar.gz", "\n", "    cd git-">> \o GIT_VERS
                       \o <<"\n", "    make prefix=/usr/local/git install", "\n", "fi", "\n", "ln -s /usr/local/git/bin/git /usr/local/bin/git">>,
                       <<"bash">>, <<>>, None)>>
    ELSE (IF Contains(t.name, <<"t", "u", "m", "b", "l", "e", "w", "e", "e", "d">>)
          THEN install_system_package(t, <<"which">>) ELSE <<>>)
         \o install_system_package(t, <<"git">>)

\* a buggy install_rust: the cache key is made of the unused key_prefix
\* (target name, cross-target, salt, runner OS) and the lockfile hash
install_rust_key_prefixed(t) ==
    t.name \o <<"-">> \o (IF t.rust_target = None THEN <<"N", "o", "n", "e">> ELSE t.rust_target)
    \o <<"-", "2", "-">> \o <<"${{ runner.os }}-cargo-deps-${{ hashFiles('**/Cargo.lock') }}">>

\* the key of the cache step of install_rust
install_rust_key(t) == <<"cargo-deps-${{ hashFiles('**/Cargo.lock') }}">>

\* install_rust(), with the defaults cache=True, toolchain="stable"
install_rust(t) ==
    LET params == IF Truthy(t.rust_target)
                  THEN <<<<<<"t", "a", "r", "g", "e", "t">>, PyStr(t.rust_target)>>>> ELSE <<>>
    IN  (IF Contains(t.name, <<"c", "e", "n", "t", "o", "s", "7">>)
         THEN <<RunStepDefault(<<"Install Rustup">>,
                    <<"\n", "if ! command -v rustup &>/dev/null; then", "\n", "  curl --proto '=https' --tlsv1.2 --retry 10 -fsSL ", "\"", "https://sh.rustup.rs", "\"", " | sh -s -- --default-toolchain none -y", "\n", "  echo ", "\"", "${CARGO_HOME:-$HOME/.cargo}/bin", "\"", " >> $GITHUB_PATH", "\n", "fi", "\n">>),
                RunStepDefault(<<"Setup Toolchain">>,
                    <<"\n", "rustup toolchain install stable --profile minimal --no-self-update", "\n", "rustup default stable", "\n">>)>>
         ELSE IF Contains(t.name, <<"m", "a", "c", "o", "s">>)
         THEN <<RunStepDefault(<<"Install Rust (ARM)">>, <<"rustup target add aarch64-apple-darwin">>),
                RunStepDefault(<<"Install Rust (Intel)">>, <<"rustup target add x86_64-apple-darwin">>)>>
         ELSE <<ActionStep(<<"Install Rust">>, <<"dtolnay/rust-toolchain@stable">>, params,
                           <<>>, None, None)>>)
        \o <<SccacheStep(<<"Compile with sccache">>),
             CacheStep(<<"Cache Rust Dependencies">>, <<"vendor", "\n", ".cargo/config">>,
                       install_rust_key(t), <<"cache-cargo-vendor">>),
             RunStep(<<"Vendor dependecies">>,
                     <<"cargo vendor --locked --versioned-dirs >> .cargo/config">>,
                     <<"bash">>, <<>>,
                     <<"steps.cache-cargo-vendor.outputs.cache-hit != 'true'">>)>>

install_system_deps(t) ==
    IF Contains(t.name, <<"w", "i", "n">>) THEN <<>>
    ELSE <<RunStepDefault(<<"Install System Deps">>,
               (IF needs_sudo(t) THEN <<"sudo -n ">> ELSE <<>>)
               \o <<"env CI=yes PATH=$PATH ./get-deps">>)>>

fixup_windows_path(t, cmd) ==
    IF Contains(t.name, <<"w", "i", "n">>)
    THEN <<"PATH C:\\Strawberry\\perl\\bin;%PATH%", "\n">> \o cmd
    ELSE cmd

bin_crates == <<<<"wezterm">>, <<"wezterm-gui">>, <<"wezterm-mux-server">>, <<"strip-ansi-escapes">>>>

\* the steps the loop body of build_all_release adds for one crate
build_release(t, bin) ==
    IF Contains(t.name, <<"w", "i", "n">>)
    THEN <<RunStep(<<"Build ">> \o bin \o <<" (Release mode)">>,
                   fixup_windows_path(t, <<"cargo build -p ">> \o bin \o <<" --release">>),
                   <<"cmd">>, <<>>, None)>>
    ELSE IF Contains(t.name, <<"m", "a", "c", "o", "s">>)
    THEN <<RunStepDefault(<<"Build ">> \o bin \o <<" (Release mode Intel)">>,
               <<"cargo build --target x86_64-apple-darwin -p ">> \o bin \o <<" --release">>),
           RunStepDefault(<<"Build ">> \o bin \o <<" (Release mode ARM)">>,
               <<"cargo build --target aarch64-apple-darwin -p ">> \o bin \o <<" --release">>)>>
    ELSE <<RunStepDefault(<<"Build ">> \o bin \o <<" (Release mode)">>,
               (IF t.name = <<"c", "e", "n", "t", "o", "s", "7">> THEN <<"source /opt/rh/devtoolset-9/enable && ">> ELSE <<>>)
               \o <<"cargo build -p ">> \o bin \o <<" --release">>)>>

build_all_release(t) == Concat([i \in 1..Len(bin_crates) |-> build_release(t, bin_crates[i])])

test_all(t) ==
    LET run0 == <<"cargo nextest run --all --no-fail-fast">>
        run1 == IF Contains(t.name, <<"m", "a", "c", "o", "s">>)
                THEN run0 \o <<" --target=x86_64-apple-darwin">> ELSE run0
        run == IF t.name = <<"c", "e", "n", "t", "o", "s", "7">>
               THEN <<"source /opt/rh/devtoolset-9/enable", "\n">> \o run1 ELSE run1
    IN  <<InstallCrateStep(<<"cargo-nextest">>, t.name),
          IF Contains(t.name, <<"w", "i", "n">>)
          THEN RunStep(<<"Test">>, fixup_windows_path(t, run), <<"cmd">>, <<>>, None)
          ELSE RunStepDefault(<<"Test">>, run)>>

\* a buggy package: the signing secrets are attached whatever trusted is
package_always_signed(t, trusted) ==
    LET deploy_env ==
            IF Contains(t.name, <<"m", "a", "c">>)
            THEN <<<<<<"M", "A", "C", "O", "S", "_", "C", "E", "R", "T">>, PyStr(<<"${{ secrets.", "M", "A", "C", "O", "S", "_", "C", "E", "R", "T", " }}">>)>>,
                   <<<<"M", "A", "C", "O", "S", "_", "C", "E", "R", "T", "_", "P", "W">>, PyStr(<<"${{ secrets.", "M", "A", "C", "O", "S", "_", "C", "E", "R", "T", "_", "P", "W", " }}">>)>>,
                   <<<<"M", "A", "C", "O", "S", "_", "T", "E", "A", "M", "_", "I", "D">>, PyStr(<<"${{ secrets.", "M", "A", "C", "O", "S", "_", "T", "E", "A", "M", "_", "I", "D", " }}">>)>>,
                   <<<<"M", "A", "C", "O", "S", "_", "A", "P", "P", "L", "E", "I", "D">>, PyStr(<<"${{ secrets.", "M", "A", "C", "O", "S", "_", "A", "P", "P", "L", "E", "I", "D", " }}">>)>>,
                   <<<<"M", "A", "C", "O", "S", "_", "A", "P", "P", "_", "P", "W">>, PyStr(<<"${{ secrets.", "M", "A", "C", "O", "S", "_", "A", "P", "P", "_", "P", "W", " }}">>)>>>>
            ELSE <<>>
    IN  <<RunStep(<<"Package">>, <<"bash ci/deploy.sh">>, <<"bash">>, deploy_env, None)>>
        \o (IF t.app_image
            THEN install_system_package(t, <<"libfuse2">>)
                 \o <<RunStepDefault(<<"Source Tarball">>, <<"bash ci/source-archive.sh">>),
                      RunStepDefault(<<"Build AppImage">>, <<"bash ci/appimage.sh">>)>>
            ELSE <<>>)

\* package(trusted)
package(t, trusted) ==
    LET deploy_env ==
            IF trusted /\ Contains(t.name, <<"m", "a", "c">>)
            THEN <<<<<<"M", "A", "C", "O", "S", "_", "C", "E", "R", "T">>, PyStr(<<"${{ secrets.", "M", "A", "C", "O", "S", "_", "C", "E", "R", "T", " }}">>)>>,
                   <<<<"M", "A", "C", "O", "S", "_", "C", "E", "R", "T", "_", "P", "W">>, PyStr(<<"${{ secrets.", "M", "A", "C", "O", "S", "_", "C", "E", "R", "T", "_", "P", "W", " }}">>)>>,
                   <<<<"M", "A", "C", "O", "S", "_", "T", "E", "A", "M", "_", "I", "D">>, PyStr(<<"${{ secrets.", "M", "A", "C", "O", "S", "_", "T", "E", "A", "M", "_", "I", "D", " }}">>)>>,
                   <<<<"M", "A", "C", "O", "S", "_", "A", "P", "P", "L", "E", "I", "D">>, PyStr(<<"${{ secrets.", "M", "A", "C", "O", "S", "_", "A", "P", "P", "L", "E", "I", "D", " }}">>)>>,
                   <<<<"M", "A", "C", "O", "S", "_", "A", "P", "P", "_", "P", "W">>, PyStr(<<"${{ secrets.", "M", "A", "C", "O", "S", "_", "A", "P", "P", "_", "P", "W", " }}">>)>>>>
            ELSE <<>>
    IN  <<RunStep(<<"Package">>, <<"bash ci/deploy.sh">>, <<"bash">>, deploy_env, None)>>
        \o (IF t.app_image
            THEN install_system_package(t, <<"libfuse2">>)
                 \o <<RunStepDefault(<<"Source Tarball">>, <<"bash ci/source-archive.sh">>),
                      RunStepDefault(<<"Build AppImage">>, <<"bash ci/appimage.sh">>)>>
            ELSE <<>>)

\* a buggy asset_patterns: the test for "win" comes first
asset_patterns_win_first(t) ==
    (IF Contains(t.name, <<"w", "i", "n">>) THEN <<<<"W", "e", "z", "T", "e", "r", "m", "-", "*", ".", "z", "i", "p">>, <<"W", "e", "z", "T", "e", "r", "m", "-", "*", ".", "e", "x", "e">>>>
     ELSE IF uses_yum(t) \/ uses_zypper(t) THEN <<<<"w", "e", "z", "t", "e", "r", "m", "-", "*", ".", "r", "p", "m">>>>
     ELSE IF Contains(t.name, <<"m", "a", "c">>) THEN <<<<"W", "e", "z", "T", "e", "r", "m", "-", "*", ".", "z", "i", "p">>>>
     ELSE IF Contains(t.name, <<"u", "b", "u", "n", "t", "u">>) \/ Contains(t.name, <<"d", "e", "b", "i", "a", "n">>)
     THEN <<<<"w", "e", "z", "t", "e", "r", "m", "-", "*", ".", "d", "e", "b">>, <<"w", "e", "z", "t", "e", "r", "m", "-", "*", ".", "x", "z">>>>
     ELSE IF Contains(t.name, <<"a", "l", "p", "i", "n", "e">>)
     THEN <<<<"w", "e", "z", "t", "e", "r", "m", "-", "*", ".", "a", "p", "k">>>> \o (IF t.is_tag THEN <<<<"*", ".", "p", "u", "b">>>> ELSE <<>>)
     ELSE <<>>)
    \o (IF t.app_image THEN <<<<"*", "s", "r", "c", ".", "t", "a", "r", ".", "g", "z">>, <<"*", ".", "A", "p", "p", "I", "m", "a", "g", "e">>, <<"*", ".", "z", "s", "y", "n", "c">>>> ELSE <<>>)

asset_patterns(t) ==
    (IF uses_yum(t) \/ uses_zypper(t) THEN <<<<"w", "e", "z", "t", "e", "r", "m", "-", "*", ".", "r", "p", "m">>>>
     ELSE IF Contains(t.name, <<"w", "i", "n">>) THEN <<<<"W", "e", "z", "T", "e", "r", "m", "-", "*", ".", "z", "i", "p">>, <<"W", "e", "z", "T", "e", "r", "m", "-", "*", ".", "e", "x", "e">>>>
     ELSE IF Contains(t.name, <<"m", "a", "c">>) THEN <<<<"W", "e", "z", "T", "e", "r", "m", "-", "*", ".", "z", "i", "p">>>>
     ELSE IF Contains(t.name, <<"u", "b", "u", "n", "t", "u">>) \/ Contains(t.name, <<"d", "e", "b", "i", "a", "n">>)
     THEN <<<<"w", "e", "z", "t", "e", "r", "m", "-", "*", ".", "d", "e", "b">>, <<"w", "e", "z", "t", "e", "r", "m", "-", "*", ".", "x", "z">>>>
     ELSE IF Contains(t.name, <<"a", "l", "p", "i", "n", "e">>)
     THEN <<<<"w", "e", "z", "t", "e", "r", "m", "-", "*", ".", "a", "p", "k">>>> \o (IF t.is_tag THEN <<<<"*", ".", "p", "u", "b">>>> ELSE <<>>)
     ELSE <<>>)
    \o (IF t.app_image THEN <<<<"*", "s", "r", "c", ".", "t", "a", "r", ".", "g", "z">>, <<"*", ".", "A", "p", "p", "I", "m", "a", "g", "e">>, <<"*", ".", "z", "s", "y", "n", "c">>>> ELSE <<>>)

upload_artifact(t) ==
    (IF uses_yum(t)
     THEN <<RunStepDefault(<<"Move RPM">>, <<"mv ~/rpmbuild/RPMS/*/*">> \o <<".", "r", "p", "m">> \o <<" .">>)>>
     ELSE IF uses_apk(t)
     THEN <<RunStepDefault(<<"Rename APKs">>,
                <<"mv ~/packages/wezterm/x86_64/*.apk $(echo ~/packages/wezterm/x86_64/*.apk | sed -e 's/wezterm-/wezterm-">>
                \o t.name \o <<"-/')">>),
            RunStepDefault(<<"Move APKs">>, <<"mv ~/packages/wezterm/x86_64/*.apk .">>),
            RunStepDefault(<<"Move APK keys">>, <<"mv ~/.abuild/*.pub wezterm-">> \o t.name \o <<".pub">>)>>
     ELSE IF uses_zypper(t)
     THEN <<RunStepDefault(<<"Move RPM">>, <<"mv /usr/src/packages/RPMS/*/*">> \o <<".", "r", "p", "m">> \o <<" .">>)>>
     ELSE <<>>)
    \o <<ActionStep(<<"Upload artifact">>, <<"actions/upload-artifact@v4">>,
                    <<<<<<"n", "a", "m", "e">>, PyStr(t.name)>>,
                      <<<<"p", "a", "t", "h">>, PyStr(Join(<<"\n">>, asset_patterns(t)))>>>>,
                    <<>>, None, None)>>

upload_artifact_nightly(t) ==
    (IF uses_yum(t)
     THEN <<RunStepDefault(<<"Move RPM">>,
                <<"mv ~/rpmbuild/RPMS/*/*">> \o <<".", "r", "p", "m">> \o <<" wezterm-nightly-">> \o t.name \o <<".", "r", "p", "m">>)>>
     ELSE IF uses_apk(t)
     THEN <<RunStepDefault(<<"Move APKs">>,
                <<"mv ~/packages/wezterm/x86_64/*.apk wezterm-nightly-">> \o t.name \o <<".apk">>)>>
     ELSE IF uses_zypper(t)
     THEN <<RunStepDefault(<<"Move RPM">>,
                <<"mv /usr/src/packages/RPMS/*/*">> \o <<".", "r", "p", "m">> \o <<" wezterm-nightly-">> \o t.name \o <<".", "r", "p", "m">>)>>
     ELSE <<>>)
    \o <<ActionStep(<<"Upload artifact">>, <<"actions/upload-artifact@v4">>,
                    <<<<<<"n", "a", "m", "e">>, PyStr(t.name)>>,
                      <<<<"p", "a", "t", "h">>, PyStr(Join(<<"\n">>, asset_patterns(t)))>>,
                      <<<<"r", "e", "t", "e", "n", "t", "i", "o", "n", "-", "d", "a", "y", "s">>, PyInt(5)>>>>,
                    <<>>, None, None)>>

\* the Checksum step of upload_asset_nightly and upload_asset_tag
checksum(patterns) ==
    RunStepDefault(<<"Checksum">>,
        <<"for f in ">> \o Join(<<" ">>, patterns) \o <<" ; do sha256sum $f > $f.sha256 ; done">>)

\* the Upload to gemfury step of upload_asset_nightly and upload_asset_tag
gemfury(t) ==
    IF t.container = <<"u", "b", "u", "n", "t", "u", ":", "2", "2", ".", "0", "4">>
    THEN <<RunStep(<<"Upload to gemfury">>,
                   <<"for f in wezterm*">> \o <<".", "d", "e", "b">>
                   \o <<" ; do curl -i -F package=@$f https://$FURY_TOKEN@push.fury.io/wez/ ; done">>,
                   <<"bash">>, <<<<<<"F", "U", "R", "Y", "_", "T", "O", "K", "E", "N">>, PyStr(<<"${{ secrets.", "F", "U", "R", "Y", "_", "T", "O", "K", "E", "N", " }}">>)>>>>, None)>>
    ELSE <<>>

GITHUB_TOKEN == <<<<<<"G", "I", "T", "H", "U", "B", "_", "T", "O", "K", "E", "N">>, PyStr(<<"${{ secrets.", "G", "I", "T", "H", "U", "B", "_", "T", "O", "K", "E", "N", " }}">>)>>>>

\* a buggy upload_asset_nightly: the upload is run once, without the wrapper
upload_asset_nightly_no_retry(t) ==
    LET patterns == asset_patterns(t)
        glob == Join(<<" ">>, Append(patterns, <<"*", ".", "s", "h", "a", "2", "5", "6">>))
    IN  <<ActionStep(<<"Download artifact">>, <<"actions/download-artifact@v4">>,
                     <<<<<<"n", "a", "m", "e">>, PyStr(t.name)>>>>, <<>>, None, None),
          checksum(patterns),
          RunStep(<<"Upload to Nightly Release">>,
                  <<"gh release upload", " --clobber nightly ">> \o glob,
                  <<"bash">>, GITHUB_TOKEN, None)>>
        \o gemfury(t)

upload_asset_nightly(t) ==
    LET patterns == asset_patterns(t)
        glob == Join(<<" ">>, Append(patterns, <<"*", ".", "s", "h", "a", "2", "5", "6">>))
    IN  <<ActionStep(<<"Download artifact">>, <<"actions/download-artifact@v4">>,
                     <<<<<<"n", "a", "m", "e">>, PyStr(t.name)>>>>, <<>>, None, None),
          checksum(patterns),
          RunStep(<<"Upload to Nightly Release">>,
                  <<"bash ci/retry.sh ", "gh release upload", " --clobber nightly ">> \o glob,
                  <<"bash">>, GITHUB_TOKEN, None)>>
        \o gemfury(t)

\* a buggy upload_asset_tag: the Checksum step is built after "*.sha256" was
\* appended to the patterns
upload_asset_tag_checksum_late(t) ==
    LET patterns == Append(asset_patterns(t), <<"*", ".", "s", "h", "a", "2", "5", "6">>)
        joined == Join(<<" ">>, patterns)
    IN  gemfury(t)
        \o <<ActionStep(<<"Download artifact">>, <<"actions/download-artifact@v4">>,
                        <<<<<<"n", "a", "m", "e">>, PyStr(t.name)>>>>, <<>>, None, None),
             checksum(patterns),
             RunStep(<<"Create pre-release">>,
                     <<"bash ci/retry.sh ", "bash ci/create-release.sh", " $(ci/tag-name.sh)">>,
                     <<"bash">>, GITHUB_TOKEN, None),
             RunStep(<<"Upload to Tagged Release">>,
                     <<"bash ci/retry.sh ", "gh release upload", " --clobber $(ci/tag-name.sh) ">> \o joined,
                     <<"bash">>, GITHUB_TOKEN, None)>>

upload_asset_tag(t) ==
    LET patterns == asset_patterns(t)
        glob == Join(<<" ">>, Append(patterns, <<"*", ".", "s", "h", "a", "2", "5", "6">>))
    IN  gemfury(t)
        \o <<ActionStep(<<"Download artifact">>, <<"actions/download-artifact@v4">>,
                        <<<<<<"n", "a", "m", "e">>, PyStr(t.name)>>>>, <<>>, None, None),
             checksum(patterns),
             RunStep(<<"Create pre-release">>,
                     <<"bash ci/retry.sh ", "bash ci/create-release.sh", " $(ci/tag-name.sh)">>,
                     <<"bash">>, GITHUB_TOKEN, None),
             RunStep(<<"Upload to Tagged Release">>,
                     <<"bash ci/retry.sh ", "gh release upload", " --clobber $(ci/tag-name.sh) ">> \o glob,
                     <<"bash">>, GITHUB_TOKEN, None)>>

GH_PAT == <<<<<<"G", "I", "T", "H", "U", "B", "_", "T", "O", "K", "E", "N">>, PyStr(<<"${{ secrets.", "G", "H", "_", "P", "A", "T", " }}">>)>>>>

\* the params of a checkout of another repository with the GH_PAT token
checkout_params(repository, path) ==
    <<<<<<"r", "e", "p", "o", "s", "i", "t", "o", "r", "y">>, PyStr(repository)>>, <<<<"p", "a", "t", "h">>, PyStr(path)>>,
      <<<<"t", "o", "k", "e", "n">>, PyStr(<<"${{ secrets.", "G", "H", "_", "P", "A", "T", " }}">>)>>>>

create_flathub_pr(t) ==
    IF ~t.app_image THEN <<>>
    ELSE <<ActionStep(<<"Checkout flathub/org.wezfurlong.wezterm">>, <<"actions/checkout@v4">>,
                      checkout_params(<<"flathub/org.wezfurlong.wezterm">>, <<"flathub">>),
                      <<>>, None, None),
           RunStepDefault(<<"Create flathub commit and push">>, <<"bash ci/make-flathub-pr.sh">>),
           RunStep(<<"Submit PR">>,
                   <<"cd flathub && gh pr create --fill --body ", "\"", "PR automatically created by release automation in the wezterm repo", "\"">>,
                   <<"bash">>, GH_PAT, None)>>

create_winget_pr(t) ==
    IF Contains(t.name, <<"w", "i", "n", "d", "o", "w", "s">>)
    THEN <<ActionStep(<<"Checkout winget-pkgs">>, <<"actions/checkout@v4">>,
                      checkout_params(<<"wez/winget-pkgs">>, <<"winget-pkgs">>), <<>>, None, None),
           RunStepDefault(<<"Setup email for winget repo">>,
                          <<"cd winget-pkgs && git config user.email wez@wezfurlong.org">>),
           RunStepDefault(<<"Setup name for winget repo">>,
                          <<"cd winget-pkgs && git config user.name 'Wez Furlong'">>),
           RunStepDefault(<<"Create winget manifest and push to fork">>,
                          <<"bash ci/make-winget-pr.sh winget-pkgs WezTerm-*">> \o <<".", "e", "x", "e">>),
           RunStep(<<"Submit PR">>,
                   <<"cd winget-pkgs && gh pr create --fill --body ", "\"", "PR automatically created by release automation in the wezterm repo", "\"">>,
                   <<"bash">>, GH_PAT, None)>>
    ELSE <<>>

\* the params of the git-auto-commit action
commit_params(repository) ==
    <<<<<<"c", "o", "m", "m", "i", "t", "_", "m", "e", "s", "s", "a", "g", "e">>, PyStr(<<"Automated update to match latest tag">>)>>,
      <<<<"r", "e", "p", "o", "s", "i", "t", "o", "r", "y">>, PyStr(repository)>>>>

\* a buggy update_homebrew_tap: the linuxbrew tap of the AppImage targets is left out
update_homebrew_tap_macos_only(t) ==
    IF Contains(t.name, <<"m", "a", "c", "o", "s">>)
    THEN <<ActionStep(<<"Checkout homebrew tap">>, <<"actions/checkout@v4">>,
                      checkout_params(<<"wez/homebrew-wezterm">>, <<"homebrew-wezterm">>),
                      <<>>, None, None),
           RunStepDefault(<<"Update homebrew tap formula">>,
                          <<"cp wezterm.rb homebrew-wezterm/Casks/wezterm.rb">>),
           ActionStep(<<"Commit homebrew tap changes">>, <<"stefanzweifel/git-auto-commit-action@v5">>,
                      commit_params(<<"homebrew-wezterm">>), <<>>, None, None)>>
    ELSE <<>>

update_homebrew_tap(t) ==
    IF Contains(t.name, <<"m", "a", "c", "o", "s">>)
    THEN <<ActionStep(<<"Checkout homebrew tap">>, <<"actions/checkout@v4">>,
                      checkout_params(<<"wez/homebrew-wezterm">>, <<"homebrew-wezterm">>),
                      <<>>, None, None),
           RunStepDefault(<<"Update homebrew tap formula">>,
                          <<"cp wezterm.rb homebrew-wezterm/Casks/wezterm.rb">>),
           ActionStep(<<"Commit homebrew tap changes">>, <<"stefanzweifel/git-auto-commit-action@v5">>,
                      commit_params(<<"homebrew-wezterm">>), <<>>, None, None)>>
    ELSE IF t.app_image
    THEN <<ActionStep(<<"Checkout linuxbrew tap">>, <<"actions/checkout@v4">>,
                      checkout_params(<<"wez/homebrew-wezterm-linuxbrew">>, <<"linuxbrew-wezterm">>),
                      <<>>, None, None),
           RunStepDefault(<<"Update linuxbrew tap formula">>,
                          <<"cp wezterm-linuxbrew.rb linuxbrew-wezterm/Formula/wezterm.rb">>),
           ActionStep(<<"Commit linuxbrew tap changes">>, <<"stefanzweifel/git-auto-commit-action@v5">>,
                      commit_params(<<"linuxbrew-wezterm">>), <<>>, None, None)>>
    ELSE <<>>

\* global_env(): the env of the target after the call
global_env(t) ==
    LET e1 == DictSet(t.env, <<"C", "A", "R", "G", "O", "_", "I", "N", "C", "R", "E", "M", "E", "N", "T", "A", "L">>, PyStr(<<"0">>))
        e2 == DictSet(e1, <<"S", "C", "C", "A", "C", "H", "E", "_", "G", "H", "A", "_", "E", "N", "A", "B", "L", "E", "D">>, PyStr(<<"true">>))
        e3 == DictSet(e2, <<"R", "U", "S", "T", "C", "_", "W", "R", "A", "P", "P", "E", "R">>, PyStr(<<"sccache">>))
        e4 == IF Contains(t.name, <<"m", "a", "c", "o", "s">>)
              THEN DictSet(e3, <<"M", "A", "C", "O", "S", "X", "_", "D", "E", "P", "L", "O", "Y", "M", "E", "N", "T", "_", "T", "A", "R", "G", "E", "T">>, PyStr(<<"10.9">>)) ELSE e3
        e5 == IF Contains(t.name, <<"a", "l", "p", "i", "n", "e">>)
              THEN DictSet(e4, <<"R", "U", "S", "T", "F", "L", "A", "G", "S">>, PyStr(<<"-C target-feature=-crt-static">>)) ELSE e4
    IN  IF Contains(t.name, <<"w", "i", "n">>)
        THEN DictSet(e5, <<"R", "U", "S", "T", "U", "P", "_", "W", "I", "N", "D", "O", "W", "S", "_", "P", "A", "T", "H", "_", "A", "D", "D", "_", "B", "I", "N">>, PyStr(<<"1">>)) ELSE e5

\* checkout(submodules)
checkout(t, submodules) ==
    (IF Truthy(t.container)
     THEN <<RunStepDefault(<<"Workaround git permissions issue">>,
                <<"git config --global --add safe.directory /__w/wezterm/wezterm">>)>>
     ELSE <<>>)
    \o <<CheckoutStep(<<"checkout repo">>, submodules, t.container)>>

\* the steps prep_environment adds under "if self.container:" for the image
prep_container(t) ==
    (IF Contains(t.container, <<"f", "e", "d", "o", "r", "a">>)
        \/ (Contains(t.container, <<"c", "e", "n", "t", "o", "s">>) /\ ~Contains(t.container, <<"c", "e", "n", "t", "o", "s", "7">>))
     THEN <<RunStepDefault(<<"Install config manager">>,
                           <<"dnf install -y 'dnf-command(config-manager)'">>)>>
     ELSE <<>>)
    \o (IF Contains(t.container, <<"c", "e", "n", "t", "o", "s", ":", "s", "t", "r", "e", "a", "m", "8">>)
        THEN <<RunStepDefault(<<"Enable PowerTools">>,
                              <<"dnf config-manager --set-enabled powertools">>)>>
        ELSE <<>>)
    \o (IF Contains(t.container, <<"c", "e", "n", "t", "o", "s", ":", "s", "t", "r", "e", "a", "m", "9">>)
        THEN <<RunStepDefault(<<"Enable CRB repo for X bits">>,
                              <<"dnf config-manager --set-enabled crb">>)>>
        ELSE <<>>)
    \o (IF Contains(t.container, <<"a", "l", "p", "i", "n", "e">>)
        THEN <<RunStep(<<"Upgrade system">>, <<"apk upgrade --update-cache">>, <<"sh">>, <<>>, None),
               RunStep(<<"Install CI dependencies">>,
                       <<"apk add nodejs zstd wget bash coreutils tar findutils">>, <<"sh">>, <<>>, None),
               RunStepDefault(<<"Allow root login">>, <<"sed 's/root:!/root:*/g' -i /etc/shadow">>)>>
        ELSE <<>>)
    \o (IF Contains(t.container, <<"o", "p", "e", "n", "s", "u", "s", "e">>)
        THEN <<RunStepDefault(<<"Install tar">>, <<"zypper install -yl tar gzip">>)>>
        ELSE <<>>)

\* a buggy prep_environment: the repository is checked out before git is installed
prep_environment_checkout_first(t) ==
    checkout(t, TRUE)
    \o install_newer_compiler(t)
    \o install_git(t)
    \o install_curl(t)
    \o install_openssh_server(t)
    \o install_rust(t)
    \o install_system_deps(t)

\* a buggy prep_environment: the Rust toolchain and its caches are set up
\* before the repository is checked out
prep_environment_rust_before_checkout(t) ==
    LET sudo == IF needs_sudo(t) THEN <<"sudo -n ">> ELSE <<>>
    IN  (IF uses_apt(t)
         THEN (IF Truthy(t.container)
               THEN <<RunStepDefault(<<"set APT to non-interactive">>,
                          <<"echo 'debconf debconf/frontend select Noninteractive' | debconf-set-selections">>)>>
               ELSE <<>>)
              \o <<RunStepDefault(<<"Update APT">>, sudo \o <<"apt update">>)>>
         ELSE <<>>)
        \o (IF uses_zypper(t) /\ Truthy(t.container)
            THEN <<RunStepDefault(<<"Seed GITHUB_PATH to work around possible @action/core bug">>,
                                  <<"echo ", "\"", "$PATH:/bin:/usr/bin", "\"", " >> $GITHUB_PATH">>),
                   RunStepDefault(<<"Install util-linux">>, <<"zypper install -y util-linux">>)>>
            ELSE <<>>)
        \o (IF Truthy(t.container) THEN prep_container(t) ELSE <<>>)
        \o install_newer_compiler(t)
        \o install_git(t)
        \o install_curl(t)
        \o (IF uses_apt(t) /\ Truthy(t.container)
            THEN <<RunStepDefault(<<"Update APT">>, sudo \o <<"apt update">>)>>
            ELSE <<>>)
        \o install_openssh_server(t)
        \o install_rust(t)
        \o checkout(t, TRUE)
        \o install_system_deps(t)

\* prep_environment(), with the default cache=True
prep_environment(t) ==
    LET sudo == IF needs_sudo(t) THEN <<"sudo -n ">> ELSE <<>>
    IN  (IF uses_apt(t)
         THEN (IF Truthy(t.container)
               THEN <<RunStepDefault(<<"set APT to non-interactive">>,
                          <<"echo 'debconf debconf/frontend select Noninteractive' | debconf-set-selections">>)>>
               ELSE <<>>)
              \o <<RunStepDefault(<<"Update APT">>, sudo \o <<"apt update">>)>>
         ELSE <<>>)
        \o (IF uses_zypper(t) /\ Truthy(t.container)
            THEN <<RunStepDefault(<<"Seed GITHUB_PATH to work around possible @action/core bug">>,
                                  <<"echo ", "\"", "$PATH:/bin:/usr/bin", "\"", " >> $GITHUB_PATH">>),
                   RunStepDefault(<<"Install util-linux">>, <<"zypper install -y util-linux">>)>>
            ELSE <<>>)
        \o (IF Truthy(t.container) THEN prep_container(t) ELSE <<>>)
        \o install_newer_compiler(t)
        \o install_git(t)
        \o install_curl(t)
        \o (IF uses_apt(t) /\ Truthy(t.container)
            THEN <<RunStepDefault(<<"Update APT">>, sudo \o <<"apt update">>)>>
            ELSE <<>>)
        \o install_openssh_server(t)
        \o checkout(t, TRUE)
        \o install_rust(t)
        \o install_system_deps(t)

\* what a call of pull_request, continuous or tag that raised leaves: no jobs
Raised(t) == [raised |-> TRUE, t |-> t, job |-> NoJob, uploader |-> NoJob]

\* a buggy pull_request: it publishes like continuous
pull_request_publishing(t) ==
    IF install_curl_raises(t) THEN Raised(t)
    ELSE [raised |-> FALSE, t |-> t,
          job |-> Job(t.os, t.container,
                      prep_environment(t) \o build_all_release(t) \o test_all(t)
                      \o package(t, FALSE) \o upload_artifact(t) \o upload_asset_nightly(t),
                      t.env),
          uploader |-> NoJob]

pull_request(t) ==
    IF install_curl_raises(t) THEN Raised(t)
    ELSE [raised |-> FALSE, t |-> t,
          job |-> Job(t.os, t.container,
                      prep_environment(t) \o build_all_release(t) \o test_all(t)
                      \o package(t, FALSE) \o upload_artifact(t),
                      t.env),
          uploader |-> NoJob]

continuous(t) ==
    IF install_curl_raises(t) THEN Raised(t)
    ELSE LET steps == prep_environment(t) \o build_all_release(t) \o test_all(t)
                      \o package(t, TRUE) \o upload_artifact_nightly(t)
             t1 == [t EXCEPT !.env = DictSet(t.env, <<"B", "U", "I", "L", "D", "_", "R", "E", "A", "S", "O", "N">>, PyStr(<<"Schedule">>))]
         IN  [raised |-> FALSE, t |-> t1,
              job |-> Job(t1.os, t1.container, steps, t1.env),
              uploader |-> Job(<<"u", "b", "u", "n", "t", "u", "-", "l", "a", "t", "e", "s", "t">>, None,
                               checkout(t1, FALSE) \o upload_asset_nightly(t1), <<>>)]

\* a buggy tag: the upload job is given the runner and the container of the target
tag_upload_in_container(t) ==
    IF install_curl_raises(t) THEN Raised(t)
    ELSE [raised |-> FALSE, t |-> t,
          job |-> Job(t.os, t.container,
                      prep_environment(t) \o build_all_release(t) \o test_all(t)
                      \o package(t, TRUE) \o upload_artifact(t) \o update_homebrew_tap(t),
                      t.env),
          uploader |-> Job(t.os, t.container,
                           checkout(t, FALSE) \o upload_asset_tag(t)
                           \o create_winget_pr(t) \o create_flathub_pr(t),
                           <<>>)]

tag(t) ==
    IF install_curl_raises(t) THEN Raised(t)
    ELSE [raised |-> FALSE, t |-> t,
          job |-> Job(t.os, t.container,
                      prep_environment(t) \o build_all_release(t) \o test_all(t)
                      \o package(t, TRUE) \o upload_artifact(t) \o update_homebrew_tap(t),
                      t.env),
          uploader |-> Job(<<"u", "b", "u", "n", "t", "u", "-", "l", "a", "t", "e", "s", "t">>, None,
                           checkout(t, FALSE) \o upload_asset_tag(t)
                           \o create_winget_pr(t) \o create_flathub_pr(t),
                           <<>>)]

\* Target(container=c, continuous_only=True, app_image=a)
ContainerTarget(c, continuous_only, app_image) ==
    Target(None, <<"u", "b", "u", "n", "t", "u", "-", "l", "a", "t", "e", "s", "t">>, c, FALSE, None, continuous_only, app_image, FALSE)

TARGETS ==
    <<ContainerTarget(<<"u", "b", "u", "n", "t", "u", ":", "2", "0", ".", "0", "4">>, TRUE, TRUE),
      ContainerTarget(<<"u", "b", "u", "n", "t", "u", ":", "2", "2", ".", "0", "4">>, TRUE, FALSE),
      ContainerTarget(<<"u", "b", "u", "n", "t", "u", ":", "2", "4", ".", "0", "4">>, TRUE, FALSE),
      ContainerTarget(<<"d", "e", "b", "i", "a", "n", ":", "1", "0", ".", "3">>, TRUE, FALSE),
      ContainerTarget(<<"d", "e", "b", "i", "a", "n", ":", "1", "1">>, TRUE, FALSE),
      ContainerTarget(<<"d", "e", "b", "i", "a", "n", ":", "1", "2">>, TRUE, FALSE),
      Target(<<"c", "e", "n", "t", "o", "s", "9">>, <<"u", "b", "u", "n", "t", "u", "-", "l", "a", "t", "e", "s", "t">>, <<"q", "u", "a", "y", ".", "i", "o", "/", "c", "e", "n", "t", "o", "s", "/", "c", "e", "n", "t", "o", "s", ":", "s", "t", "r", "e", "a", "m", "9">>,
             FALSE, None, FALSE, FALSE, FALSE),
      Target(<<"m", "a", "c", "o", "s">>, <<"m", "a", "c", "o", "s", "-", "l", "a", "t", "e", "s", "t">>, None, FALSE, None, FALSE, FALSE, FALSE),
      ContainerTarget(<<"f", "e", "d", "o", "r", "a", ":", "3", "8">>, FALSE, FALSE),
      ContainerTarget(<<"f", "e", "d", "o", "r", "a", ":", "3", "9">>, FALSE, FALSE),
      ContainerTarget(<<"f", "e", "d", "o", "r", "a", ":", "4", "0">>, FALSE, FALSE),
      Target(<<"w", "i", "n", "d", "o", "w", "s">>, <<"w", "i", "n", "d", "o", "w", "s", "-", "l", "a", "t", "e", "s", "t">>, None, FALSE,
             <<"x", "8", "6", "_", "6", "4", "-", "p", "c", "-", "w", "i", "n", "d", "o", "w", "s", "-", "m", "s", "v", "c">>, FALSE, FALSE, FALSE)>>

-----------------------------------------------------------------------------
(* Rendering *)

\* the lines "{indent}    {k}: {v}" of RunStep.render, for the keys in the given order
RECURSIVE RenderEnvRaw(_, _, _)
RenderEnvRaw(env, keys, indent) ==
    IF keys = <<>> THEN <<>>
    ELSE indent \o <<"    ">> \o Head(keys) \o <<": ">> \o Format(DictGet(env, Head(keys))) \o <<"\n">>
         \o RenderEnvRaw(env, Tail(keys), indent)

\* the lines "{indent}{k}: {yv(v, depth)}" of a dict in insertion order
RECURSIVE RenderItems(_, _, _)
RenderItems(d, indent, dep) ==
    IF d = <<>> THEN <<>>
    ELSE indent \o Head(d)[1] \o <<": ">> \o Format(yv(Head(d)[2], dep)) \o <<"\n">>
         \o RenderItems(Tail(d), indent, dep)

\* RunStep.render(f, depth): what it writes
RunStep_render(s, dep) ==
    LET indent == Indent(dep)
    IN  indent \o <<"- name: ">> \o Format(yv(PyStr(s.name), 0)) \o <<"\n">>
        \o (IF Truthy(s.condition) THEN indent \o <<"  if: ">> \o s.condition \o <<"\n">> ELSE <<>>)
        \o (IF s.env # <<>>
            THEN indent \o <<"  env:">> \o <<"\n">>
                 \o RenderEnvRaw(s.env, Sorted(DictKeys(s.env)), indent)
            ELSE <<>>)
        \o (IF Truthy(s.shell) THEN indent \o <<"  shell: ">> \o s.shell \o <<"\n">> ELSE <<>>)
        \o indent \o <<"  run: ">> \o Format(yv(PyStr(s.run), dep + 2)) \o <<"\n">>

\* ActionStep.render(f, depth): what it writes
ActionStep_render(s, dep) ==
    LET indent == Indent(dep)
    IN  indent \o <<"- name: ">> \o Format(yv(PyStr(s.name), 0)) \o <<"\n">>
        \o indent \o <<"  uses: ">> \o s.action \o <<"\n">>
        \o (IF Truthy(s.id) THEN indent \o <<"  id: ">> \o s.id \o <<"\n">> ELSE <<>>)
        \o (IF Truthy(s.condition) THEN indent \o <<"  if: ">> \o s.condition \o <<"\n">> ELSE <<>>)
        \o (IF s.params # <<>>
            THEN indent \o <<"  with:">> \o <<"\n">> \o RenderItems(s.params, indent \o <<"    ">>, dep + 3)
            ELSE <<>>)
        \o (IF s.env # <<>>
            THEN indent \o <<"  env:">> \o <<"\n">> \o RenderItems(s.env, indent \o <<"    ">>, dep + 3)
            ELSE <<>>)

\* s.render(f, depth), dispatched on the class of the step
Step_render(s, dep) ==
    IF s.cls = "RunStep" THEN RunStep_render(s, dep) ELSE ActionStep_render(s, dep)

\* Job.render(f, depth): what it writes
Job_render(job, dep) ==
    <<"\n">> \o <<"    steps:">> \o <<"\n">>
    \o Concat([i \in 1..Len(job.steps) |-> Step_render(job.steps[i], dep)])

\* Target.render_env(f), depth=0: the env after global_env() and what is written
render_env(t) ==
    LET env == global_env(t)
    IN  [t |-> [t EXCEPT !.env = env],
         text |-> IF env # <<>>
                  THEN <<"    env:">> \o <<"\n">> \o RenderItems(env, <<"      ">>, 3)
                  ELSE <<>>]

-----------------------------------------------------------------------------
(* generate_actions and its three callers *)

TRIGGER_PATHS ==
    <<<<"*", "*", "/", "*", ".", "r", "s">>, <<"*", "*", "/", "C", "a", "r", "g", "o", ".", "l", "o", "c", "k">>, <<"*", "*", "/", "C", "a", "r", "g", "o", ".", "t", "o", "m", "l">>, <<"a", "s", "s", "e", "t", "s", "/", "f", "o", "n", "t", "s", "/", "*", "*", "/", "*">>,
      <<"a", "s", "s", "e", "t", "s", "/", "i", "c", "o", "n", "/", "*">>, <<"c", "i", "/", "d", "e", "p", "l", "o", "y", ".", "s", "h">>>>

TRIGGER_PATHS_APPIMAGE ==
    <<<<"c", "i", "/", "a", "p", "p", "i", "m", "a", "g", "e", ".", "s", "h">>, <<"c", "i", "/", "a", "p", "p", "s", "t", "r", "e", "a", "m", "c", "l", "i">>, <<"c", "i", "/", "s", "o", "u", "r", "c", "e", "-", "a", "r", "c", "h", "i", "v", "e", ".", "s", "h">>>>

TRIGGER_PATHS_UNIX ==
    <<<<"a", "s", "s", "e", "t", "s", "/", "o", "p", "e", "n", "-", "w", "e", "z", "t", "e", "r", "m", "-", "h", "e", "r", "e">>, <<"a", "s", "s", "e", "t", "s", "/", "s", "h", "e", "l", "l", "-", "c", "o", "m", "p", "l", "e", "t", "i", "o", "n", "/", "*", "*", "/", "*">>,
      <<"a", "s", "s", "e", "t", "s", "/", "s", "h", "e", "l", "l", "-", "i", "n", "t", "e", "g", "r", "a", "t", "i", "o", "n", "/", "*", "*", "/", "*">>, <<"a", "s", "s", "e", "t", "s", "/", "w", "e", "z", "t", "e", "r", "m", "-", "n", "a", "u", "t", "i", "l", "u", "s", ".", "p", "y">>,
      <<"a", "s", "s", "e", "t", "s", "/", "w", "e", "z", "t", "e", "r", "m", ".", "a", "p", "p", "d", "a", "t", "a", ".", "x", "m", "l">>, <<"a", "s", "s", "e", "t", "s", "/", "w", "e", "z", "t", "e", "r", "m", ".", "d", "e", "s", "k", "t", "o", "p">>, <<"g", "e", "t", "-", "d", "e", "p", "s">>,
      <<"c", "i", "/", "t", "a", "g", "-", "n", "a", "m", "e", ".", "s", "h">>, <<"t", "e", "r", "m", "w", "i", "z", "/", "d", "a", "t", "a", "/", "w", "e", "z", "t", "e", "r", "m", ".", "t", "e", "r", "m", "i", "n", "f", "o">>>>

TRIGGER_PATHS_MAC ==
    <<<<"a", "s", "s", "e", "t", "s", "/", "m", "a", "c", "o", "s", "/", "*", "*", "/", "*">>, <<"c", "i", "/", "m", "a", "c", "o", "s", "-", "e", "n", "t", "i", "t", "l", "e", "m", "e", "n", "t", ".", "p", "l", "i", "s", "t">>, <<"g", "e", "t", "-", "d", "e", "p", "s">>, <<"c", "i", "/", "t", "a", "g", "-", "n", "a", "m", "e", ".", "s", "h">>>>

TRIGGER_PATHS_WIN ==
    <<<<"a", "s", "s", "e", "t", "s", "/", "w", "i", "n", "d", "o", "w", "s", "/", "*", "*", "/", "*">>, <<"c", "i", "/", "w", "i", "n", "d", "o", "w", "s", "-", "i", "n", "s", "t", "a", "l", "l", "e", "r", ".", "i", "s", "s">>>>

Kinds == {"pull_request", "continuous", "tag"}

\* a buggy namer: the kind is left out of the name
namer_without_kind(kind, t) == t.name

\* the namer lambda of each caller
namer(kind, t) ==
    IF kind = "pull_request" THEN t.name
    ELSE IF kind = "continuous" THEN t.name \o <<"_", "c", "o", "n", "t", "i", "n", "u", "o", "u", "s">>
    ELSE t.name \o <<"_", "t", "a", "g">>

\* the jobber lambda of each caller
jobber(kind, t) ==
    IF kind = "pull_request" THEN pull_request(t)
    ELSE IF kind = "continuous" THEN continuous(t)
    ELSE tag(t)

\* the trigger argument of each caller; @PATHS@ is a chunk of its own
trigger(kind) ==
    IF kind = "pull_request"
    THEN <<"\n", "on:", "\n", "  pull_request:", "\n", "    branches:", "\n", "      - main", "\n", "    paths:", "\n", "      ">> \o <<"@PATHS@">> \o <<"\n">>
    ELSE IF kind = "continuous"
    THEN <<"\n", "on:", "\n", "  schedule:", "\n", "    - cron: ", "\"", "10 3 * * *", "\"", "\n", "  push:", "\n", "    branches:", "\n", "      - main", "\n", "    paths:", "\n", "      ">> \o <<"@PATHS@">> \o <<"\n">>
    ELSE <<"\n", "on:", "\n", "  push:", "\n", "    tags:", "\n", "      - ", "\"", "20*", "\"", "\n">>

\* the is_tag argument of each caller
is_tag(kind) == kind = "tag"

\* s.replace(c, x) for a text c that is one chunk of s
RECURSIVE Replace(_, _, _)
Replace(s, c, x) ==
    IF s = <<>> THEN <<>>
    ELSE (IF Head(s) = c THEN x ELSE <<Head(s)>>) \o Replace(Tail(s), c, x)

\* a missing deepcopy: t stays the object of the catalog
deepcopy_alias(t) == [obj |-> t, fresh |-> FALSE]

\* deepcopy(t): a fresh object equal to t
deepcopy(t) == [obj |-> t, fresh |-> TRUE]

file_name(name) == <<".", "g", "i", "t", "h", "u", "b", "/", "w", "o", "r", "k", "f", "l", "o", "w", "s", "/", "g", "e", "n", "_">> \o name \o <<".", "y", "m", "l">>

\* a buggy generate_actions: the paths are written in the order they were added
trigger_paths_unsorted(name, t) ==
    LET paths == <<file_name(name)>> \o TRIGGER_PATHS
                 \o (IF Contains(name, <<"w", "i", "n">>) THEN TRIGGER_PATHS_WIN
                     ELSE IF Contains(name, <<"m", "a", "c", "o", "s">>) THEN TRIGGER_PATHS_MAC
                     ELSE TRIGGER_PATHS_UNIX)
                 \o (IF t.app_image THEN TRIGGER_PATHS_APPIMAGE ELSE <<>>)
        sorted == paths
    IN  <<"- ">> \o Join(<<"\n", "      - ">>, [i \in 1..Len(sorted) |-> Format(yv(PyStr(sorted[i]), 0))])

\* the trigger_paths text of one workflow
trigger_paths(name, t) ==
    LET paths == <<file_name(name)>> \o TRIGGER_PATHS
                 \o (IF Contains(name, <<"w", "i", "n">>) THEN TRIGGER_PATHS_WIN
                     ELSE IF Contains(name, <<"m", "a", "c", "o", "s">>) THEN TRIGGER_PATHS_MAC
                     ELSE TRIGGER_PATHS_UNIX)
                 \o (IF t.app_image THEN TRIGGER_PATHS_APPIMAGE ELSE <<>>)
        sorted == Sorted(paths)
    IN  <<"- ">> \o Join(<<"\n", "      - ">>, [i \in 1..Len(sorted) |-> Format(yv(PyStr(sorted[i]), 0))])

\* the one member of a set of one member
Only(S) == CHOOSE x \in S : TRUE

\* a buggy generate_actions: the upload job does not wait for the build job
workflow_text_no_needs(kind, name, r, env) ==
    LET container ==
            IF Truthy(r.job.container)
            THEN IF r.t.app_image
                 THEN <<"container:", "\n", "      image: ">> \o Format(yv(PyStr(r.job.container), 0))
                      \o <<"\n", "      options: --privileged">>
                 ELSE <<"container: ">> \o Format(yv(PyStr(r.job.container), 0))
            ELSE <<>>
        trigger_with_paths == Replace(trigger(kind), "@PATHS@", trigger_paths(name, r.t))
    IN  <<"name: ">> \o name \o <<"\n">> \o trigger_with_paths
        \o <<"\n", "jobs:", "\n", "  build:", "\n", "    runs-on: ">> \o Format(yv(PyStr(r.job.runs_on), 0))
        \o <<"\n", "    ">> \o container \o <<"\n">>
        \o env.text
        \o Job_render(r.job, 3)
        \o (IF r.uploader # NoJob
            THEN <<"\n", "  upload:", "\n", "    runs-on: ubuntu-latest", "\n">>
                 \o Job_render(r.uploader, 3)
            ELSE <<>>)

\* the text generate_actions writes to the file of the workflow called name,
\* for the jobs r the jobber returned and the env text render_env wrote
workflow_text(kind, name, r, env) ==
    LET container ==
            IF Truthy(r.job.container)
            THEN IF r.t.app_image
                 THEN <<"container:", "\n", "      image: ">> \o Format(yv(PyStr(r.job.container), 0))
                      \o <<"\n", "      options: --privileged">>
                 ELSE <<"container: ">> \o Format(yv(PyStr(r.job.container), 0))
            ELSE <<>>
        trigger_with_paths == Replace(trigger(kind), "@PATHS@", trigger_paths(name, r.t))
    IN  <<"name: ">> \o name \o <<"\n">> \o trigger_with_paths
        \o <<"\n", "jobs:", "\n", "  build:", "\n", "    runs-on: ">> \o Format(yv(PyStr(r.job.runs_on), 0))
        \o <<"\n", "    ">> \o container \o <<"\n">>
        \o env.text
        \o Job_render(r.job, 3)
        \o (IF r.uploader # NoJob
            THEN <<"\n", "  upload:", "\n", "    runs-on: ubuntu-latest", "\n", "    needs: build", "\n">>
                 \o Job_render(r.uploader, 3)
            ELSE <<>>)

\* one iteration of the loop of generate_actions on the object t0 of the catalog:
\* the file it writes and the state it leaves the objects in. t1 is the copy
\* with is_tag set, r what the jobber returned, env what render_env returned
generate_one(kind, t0) ==
    LET copy == deepcopy(t0)
    IN  Only({Only({Only({
            [raised |-> r.raised,
             original |-> IF copy.fresh THEN t0 ELSE (IF r.raised THEN t1 ELSE env.t),
             t |-> IF r.raised THEN t1 ELSE env.t,
             name |-> Remove(namer(kind, t1), ":"),
             file_name |-> file_name(Remove(namer(kind, t1), ":")),
             text |-> workflow_text(kind, Remove(namer(kind, t1), ":"), r, env),
             job |-> r.job, uploader |-> r.uploader]
            : env \in {render_env(r.t)}})
            : r \in {jobber(kind, t1)}})
            : t1 \in {[copy.obj EXCEPT !.is_tag = is_tag(kind)]}})

\* fnmatch of a path against .github/workflows/gen_*.yml: the star matches any
\* run of characters other than the directory separator
GlobMatch(p) ==
    LET prefix == <<".", "g", "i", "t", "h", "u", "b", "/", "w", "o", "r", "k", "f", "l", "o", "w", "s", "/", "g", "e", "n", "_">>
        suffix == <<".", "y", "m", "l">>
    IN  /\ Len(p) >= Len(prefix) + Len(suffix)
        /\ SubSeq(p, 1, Len(prefix)) = prefix
        /\ SubSeq(p, Len(p) - Len(suffix) + 1, Len(p)) = suffix
        /\ \A i \in (Len(prefix) + 1)..(Len(p) - Len(suffix)) : p[i] # "/"

\* the orders in which a directory may list its entries
Listings == {"ascending", "descending"}

RECURSIVE Reverse(_)
Reverse(s) == IF s = <<>> THEN <<>> ELSE Append(Reverse(Tail(s)), Head(s))

\* the members of a set of paths as a list
RECURSIVE AsList(_)
AsList(S) ==
    IF S = {} THEN <<>>
    ELSE LET p == CHOOSE q \in S : TRUE IN <<p>> \o AsList(S \ {p})

\* the list glob.glob returns for the matching paths
listing(S, order) ==
    IF order = "ascending" THEN Sorted(AsList(S)) ELSE Reverse(Sorted(AsList(S)))

\* a buggy remove_gen_actions: the loop ends after its first pass, so that only
\* the first matching file, in the order of the names, is removed
glob_first_only(files) ==
    LET all == {p \in files : GlobMatch(p)}
    IN  IF all = {} THEN {} ELSE {Sorted(AsList(all))[1]}

\* a buggy remove_gen_actions: the pattern names another extension, and matches nothing
glob_yaml(files) == {p \in files : GlobMatch(p) /\ Contains(p, <<".", "y", "a", "m", "l">>)}

\* glob.glob(".github/workflows/gen_*.yml") in a directory holding the given files
glob(files) == {p \in files : GlobMatch(p)}

\* f.write(text) on open(path, "w"): the file is created or replaced
write(files, path, text) ==
    [p \in DOMAIN files \cup {path} |-> IF p = path THEN text ELSE files[p]]

\* a buggy remove_gen_actions: os.remove is not called
remove_nothing(files, path) == files

\* os.remove(path)
remove(files, path) == [p \in DOMAIN files \ {path} |-> files[p]]

\* files that the output directory may hold before a run: workflows generated for
\* targets that have left the catalog, one generated by an older generator for a
\* target still in it, and one written by hand
PriorFiles ==
    {<<".", "g", "i", "t", "h", "u", "b", "/", "w", "o", "r", "k", "f", "l", "o", "w", "s", "/", "g", "e", "n", "_", "a", "l", "p", "i", "n", "e", "3", ".", "1", "5", ".", "y", "m", "l">>,
     <<".", "g", "i", "t", "h", "u", "b", "/", "w", "o", "r", "k", "f", "l", "o", "w", "s", "/", "g", "e", "n", "_", "d", "e", "b", "i", "a", "n", "9", ".", "1", "2", "_", "t", "a", "g", ".", "y", "m", "l">>,
     <<".", "g", "i", "t", "h", "u", "b", "/", "w", "o", "r", "k", "f", "l", "o", "w", "s", "/", "g", "e", "n", "_", "a", "l", "p", "i", "n", "e", "3", ".", "1", "5", "_", "t", "a", "g", ".", "y", "m", "l">>,
     <<".", "g", "i", "t", "h", "u", "b", "/", "w", "o", "r", "k", "f", "l", "o", "w", "s", "/", "g", "e", "n", "_", "m", "a", "c", "o", "s", ".", "y", "m", "l">>,
     <<".", "g", "i", "t", "h", "u", "b", "/", "w", "o", "r", "k", "f", "l", "o", "w", "s", "/", "p", "a", "g", "e", "s", ".", "y", "m", "l">>}

OldText == <<"name: old", "\n">>

-----------------------------------------------------------------------------
(* Spec: the script run from top to bottom, MaxRuns times in succession *)

GenIdle ==
    /\ pc = "idle" /\ idx = 0 /\ runs = 0 /\ calls = 0
    /\ targets = <<>> /\ fs = <<>> /\ emitted = <<>> /\ matched = <<>> /\ removed = {}
    /\ history = <<>>

YvIdle == v = PyNone /\ depth = 0 /\ result = PyNone /\ yv_pc = "idle"

TargetIdle == tgt = <<>> /\ out = <<>> /\ ncalls = 0 /\ args = <<>> /\ prior = <<>>

CrashIdle == kills = <<>>

\* how a process ended: its exit code, and when an exception ended it, the
\* name of the exception and the file its message names
Status(code, exception, mark) == [code |-> code, exception |-> exception, mark |-> mark]

\* the process has not ended
Alive == Status(-1, "", None)

\* a process starts, in an interpreter where import yaml succeeds or not; the
\* runs of the whole script are modelled with the library installed, so that
\* the check of each file is made
ProcStart(available) == yaml = available /\ stdout = <<>> /\ status = Alive

ProcIdle == ProcStart(FALSE)

KittyIdle == call = <<>> /\ data = <<>> /\ kwargs = <<>> /\ written = <<>> /\ kitty_pc = "idle"

NautilusIdle ==
    /\ selection = <<>> /\ items = <<>> /\ item_paths = <<>> /\ wezterm = FALSE
    /\ subprocesses = <<>> /\ todo = <<>> /\ nautilus_pc = "idle"

\* the other scripts are not run
ScriptsIdle == KittyIdle /\ NautilusIdle

Init ==
    /\ pc = "glob"
    /\ idx = 1
    /\ runs = 0
    /\ calls = 0
    /\ targets = TARGETS
    /\ fs \in {[p \in S |-> OldText] : S \in SUBSET PriorFiles}
    /\ emitted = <<>>
    /\ matched = <<>>
    /\ removed = {}
    /\ history = <<>>
    /\ YvIdle
    /\ TargetIdle
    /\ CrashIdle
    /\ ProcStart(TRUE)
    /\ ScriptsIdle

\* remove_gen_actions: glob.glob lists the generated files, in the order the
\* directory gives them, which is one of the two orders of Listings
Glob ==
    /\ pc = "glob"
    /\ \E order \in Listings : matched' = listing(glob(DOMAIN fs), order)
    /\ pc' = "remove"
    /\ UNCHANGED <<idx, runs, calls, targets, fs, emitted, removed, history>>
    /\ UNCHANGED <<yv_vars, target_vars, crash_vars, proc_vars, script_vars>>

\* remove_gen_actions: one pass of the loop over the list glob.glob returned
RemoveOne ==
    /\ pc = "remove"
    /\ matched # <<>>
    /\ fs' = remove(fs, Head(matched))
    /\ matched' = Tail(matched)
    /\ removed' = removed \cup {Head(matched)}
    /\ UNCHANGED <<pc, idx, runs, calls, targets, emitted, history>>
    /\ UNCHANGED <<yv_vars, target_vars, crash_vars, proc_vars, script_vars>>

\* remove_gen_actions returns and generate_pr_actions starts
RemoveDone ==
    /\ pc = "remove"
    /\ matched = <<>>
    /\ pc' = "pull_request"
    /\ idx' = 1
    /\ UNCHANGED <<runs, calls, targets, fs, emitted, matched, removed, history>>
    /\ UNCHANGED <<yv_vars, target_vars, crash_vars, proc_vars, script_vars>>

\* yaml.safe_load on a file of this generator raises when the text is not YAML:
\* here, when the workflow name, which is written bare after name:, begins
\* with the reserved indicator @, which can start no token
yaml_rejects(text) == Len(text) >= 2 /\ text[1] = "name: " /\ text[2] = "@"

\* a buggy sanity check: the ImportError is not caught
yaml_check_import_uncaught(available, path, text) ==
    IF ~available THEN [raised |-> TRUE, exception |-> "ImportError", mark |-> None]
    ELSE IF yaml_rejects(text)
    THEN [raised |-> TRUE, exception |-> "yaml.scanner.ScannerError", mark |-> path]
    ELSE [raised |-> FALSE, exception |-> "", mark |-> None]

\* a buggy sanity check: every exception is caught and dropped
yaml_check_swallowed(available, path, text) ==
    [raised |-> FALSE, exception |-> "", mark |-> None]

\* the sanity check of generate_actions on the file it has just written: the
\* exception that leaves it, if any. ImportError is caught, so that nothing is
\* parsed where import yaml fails. yaml.safe_load raises on a text it rejects,
\* and its message names the file it was reading
yaml_check(available, path, text) ==
    IF ~available THEN [raised |-> FALSE, exception |-> "", mark |-> None]
    ELSE IF yaml_rejects(text)
    THEN [raised |-> TRUE, exception |-> "yaml.scanner.ScannerError", mark |-> path]
    ELSE [raised |-> FALSE, exception |-> "", mark |-> None]

\* one iteration of the loop of generate_actions: the name is printed, the jobs
\* are built, the file is written and then parsed again; an exception ends the
\* script with exit code 1
Generate ==
    /\ pc \in Kinds
    /\ idx <= Len(targets)
    /\ \E g \in {generate_one(pc, targets[idx])} :
           /\ targets' = [targets EXCEPT ![idx] = g.original]
           /\ stdout' = Append(stdout, g.name)
           /\ IF g.raised
              THEN /\ pc' = "raised"
                   /\ status' = Status(1, "TypeError", None)
                   /\ UNCHANGED <<idx, fs, emitted>>
              ELSE /\ fs' = write(fs, g.file_name, g.text)
                   /\ emitted' = write(emitted, g.file_name,
                                       [kind |-> pc, index |-> idx, t |-> g.t,
                                        job |-> g.job, uploader |-> g.uploader])
                   /\ \E c \in {yaml_check(yaml, g.file_name, g.text)} :
                          IF c.raised
                          THEN /\ pc' = "raised"
                               /\ status' = Status(1, c.exception, c.mark)
                               /\ UNCHANGED idx
                          ELSE /\ idx' = idx + 1
                               /\ pc' = pc
                               /\ UNCHANGED status
    /\ UNCHANGED <<runs, calls, matched, removed, history>>
    /\ UNCHANGED <<yv_vars, target_vars, crash_vars, yaml, script_vars>>

\* generate_actions returns: the next caller starts, or the script ends
EndLoop ==
    /\ pc \in Kinds
    /\ idx > Len(targets)
    /\ idx' = 1
    /\ IF pc = "tag"
       THEN /\ pc' = "exit" /\ runs' = runs + 1 /\ history' = Append(history, fs)
            /\ status' = Status(0, "", None)
       ELSE /\ pc' = (IF pc = "pull_request" THEN "continuous" ELSE "tag")
            /\ UNCHANGED <<runs, history, status>>
    /\ UNCHANGED <<calls, targets, fs, emitted, matched, removed>>
    /\ UNCHANGED <<yv_vars, target_vars, crash_vars, yaml, stdout, script_vars>>

\* the script is run again: a new process builds the catalog anew
Rerun ==
    /\ pc = "exit"
    /\ runs < MaxRuns
    /\ pc' = "glob"
    /\ targets' = TARGETS
    /\ emitted' = <<>>
    /\ removed' = {}
    /\ UNCHANGED <<idx, runs, calls, fs, matched, history>>
    /\ stdout' = <<>>
    /\ status' = Alive
    /\ UNCHANGED <<yv_vars, target_vars, crash_vars, yaml, script_vars>>

Next ==
    \/ Glob
    \/ RemoveOne
    \/ RemoveDone
    \/ Generate
    \/ EndLoop
    \/ Rerun

Spec == Init /\ [][Next]_vars

-----------------------------------------------------------------------------
(* SpecKill: the script is killed at most MaxKills times, at any point of a    *)
(* run, and run again from its first line until a run ends                     *)

\* the output directory is empty, or holds all of PriorFiles
InitKill ==
    /\ pc = "glob"
    /\ idx = 1
    /\ runs = 0
    /\ calls = 0
    /\ targets = TARGETS
    /\ fs \in {[p \in S |-> OldText] : S \in {{}, PriorFiles}}
    /\ emitted = <<>>
    /\ matched = <<>>
    /\ removed = {}
    /\ history = <<>>
    /\ YvIdle
    /\ TargetIdle
    /\ CrashIdle
    /\ ProcStart(TRUE)
    /\ ScriptsIdle

\* where a kill struck: the place in the script, and the file it was writing
Struck(where, index, path) == [pc |-> where, idx |-> index, partial |-> path]

\* the process is killed between two operations on the directory: before or
\* after glob.glob, between two os.remove, or between two files
Kill ==
    /\ pc \in {"glob", "remove"} \cup Kinds
    /\ Len(kills) < MaxKills
    /\ kills' = Append(kills, Struck(pc, idx, None))
    /\ pc' = "killed"
    /\ status' = Status(-9, "", None)
    /\ UNCHANGED <<idx, runs, calls, targets, fs, emitted, matched, removed, history>>
    /\ UNCHANGED <<yv_vars, target_vars, yaml, stdout, script_vars>>

\* the lengths at which the text of a file may be cut by a kill: open(path, "w")
\* has emptied the file and nothing has reached it yet, or half of the text has
Cuts(text) == {0, Len(text) \div 2}

\* the process is killed inside the with block of generate_actions: the file
\* has been opened for writing and holds a beginning of its text
KillInWrite ==
    /\ pc \in Kinds
    /\ idx <= Len(targets)
    /\ Len(kills) < MaxKills
    /\ \E g \in {generate_one(pc, targets[idx])} :
           /\ ~g.raised
           /\ \E n \in Cuts(g.text) : fs' = write(fs, g.file_name, SubSeq(g.text, 1, n))
           /\ kills' = Append(kills, Struck(pc, idx, g.file_name))
    /\ pc' = "killed"
    /\ status' = Status(-9, "", None)
    /\ UNCHANGED <<idx, runs, calls, targets, emitted, matched, removed, history>>
    /\ UNCHANGED <<yv_vars, target_vars, yaml, stdout, script_vars>>

\* the script is run again after a kill: a new process starts at its first
\* line, in the directory as the kill left it
Restart ==
    /\ pc = "killed"
    /\ pc' = "glob"
    /\ idx' = 1
    /\ targets' = TARGETS
    /\ emitted' = <<>>
    /\ matched' = <<>>
    /\ removed' = {}
    /\ UNCHANGED <<runs, calls, fs, history>>
    /\ stdout' = <<>>
    /\ status' = Alive
    /\ UNCHANGED <<yv_vars, target_vars, crash_vars, yaml, script_vars>>

NextKill ==
    \/ Glob
    \/ RemoveOne
    \/ RemoveDone
    \/ Generate
    \/ EndLoop
    \/ Kill
    \/ KillInWrite
    \/ Restart

SpecKill == InitKill /\ [][NextKill]_vars

-----------------------------------------------------------------------------
(* SpecYaml: one run of the script with a catalog that holds a target whose   *)
(* workflow files are not YAML, with and without the yaml library             *)

\* a catalog of three targets: macos and windows as in TARGETS and, between
\* them, a target whose name begins with @
TARGETS_malformed ==
    <<TARGETS[8],
      Target(<<"@", "d", "e", "v">>, <<"u", "b", "u", "n", "t", "u", "-", "l", "a", "t", "e", "s", "t">>, None,
             FALSE, None, FALSE, FALSE, FALSE),
      TARGETS[12]>>

InitYaml ==
    /\ pc = "glob"
    /\ idx = 1
    /\ runs = 0
    /\ calls = 0
    /\ targets = TARGETS_malformed
    /\ fs \in {[p \in S |-> OldText] : S \in SUBSET PriorFiles}
    /\ emitted = <<>>
    /\ matched = <<>>
    /\ removed = {}
    /\ history = <<>>
    /\ YvIdle
    /\ TargetIdle
    /\ CrashIdle
    /\ \E available \in BOOLEAN : ProcStart(available)
    /\ ScriptsIdle

NextYaml ==
    \/ Glob
    \/ RemoveOne
    \/ RemoveDone
    \/ Generate
    \/ EndLoop

SpecYaml == InitYaml /\ [][NextYaml]_vars

-----------------------------------------------------------------------------
(* SpecKinds: one process calls the three generators MaxCalls times, in any order *)

InitKinds ==
    /\ pc = "choose"
    /\ idx = 1
    /\ runs = 0
    /\ calls = 0
    /\ targets = TARGETS
    /\ fs = <<>>
    /\ emitted = <<>>
    /\ matched = <<>>
    /\ removed = {}
    /\ history = <<>>
    /\ YvIdle
    /\ TargetIdle
    /\ CrashIdle
    /\ \E available \in BOOLEAN : ProcStart(available)
    /\ ScriptsIdle

\* generate_pr_actions, continuous_actions or tag_actions is called
CallKind ==
    /\ pc = "choose"
    /\ calls < MaxCalls
    /\ \E k \in Kinds : pc' = k
    /\ idx' = 1
    /\ calls' = calls + 1
    /\ UNCHANGED <<runs, targets, fs, emitted, matched, removed, history>>
    /\ UNCHANGED <<yv_vars, target_vars, crash_vars, proc_vars, script_vars>>

\* generate_actions returns to the caller
ReturnKind ==
    /\ pc \in Kinds
    /\ idx > Len(targets)
    /\ pc' = "choose"
    /\ UNCHANGED <<idx, runs, calls, targets, fs, emitted, matched, removed, history>>
    /\ UNCHANGED <<yv_vars, target_vars, crash_vars, proc_vars, script_vars>>

NextKinds ==
    \/ CallKind
    \/ Generate
    \/ ReturnKind

SpecKinds == InitKinds /\ [][NextKinds]_vars

-----------------------------------------------------------------------------
(* SpecTarget: a Target built from arguments drawn from bounded sets, and the  *)
(* workflow builders called on it                                              *)

PoolNames == {None, <<"d", "e", "b", "i", "a", "n", ":", "1", "2">>, <<"c", "e", "n", "t", "o", "s", "7">>, <<"m", "a", "c", "o", "s">>, <<"u", "b", "u", "n", "t", "u", "-", "w", "i", "n">>, <<"f", "e", "d", "o", "r", "a", "-", "w", "i", "n">>}

PoolContainers ==
    {None, <<"u", "b", "u", "n", "t", "u", ":", "2", "2", ".", "0", "4">>, <<"d", "e", "b", "i", "a", "n", ":", "8", ".", "1", "1">>, <<"f", "e", "d", "o", "r", "a", ":", "3", "8">>, <<"a", "l", "p", "i", "n", "e", ":", "3", ".", "1", "5">>,
     <<"o", "p", "e", "n", "s", "u", "s", "e", "/", "t", "u", "m", "b", "l", "e", "w", "e", "e", "d">>}

PoolOs == {<<"u", "b", "u", "n", "t", "u", "-", "l", "a", "t", "e", "s", "t">>, <<"w", "i", "n", "d", "o", "w", "s", "-", "l", "a", "t", "e", "s", "t">>}

\* the name, os and container arguments of the Target(...) calls of TARGETS
TARGETS_args ==
    <<[name |-> None, os |-> <<"u", "b", "u", "n", "t", "u", "-", "l", "a", "t", "e", "s", "t">>, container |-> <<"u", "b", "u", "n", "t", "u", ":", "2", "0", ".", "0", "4">>],
      [name |-> None, os |-> <<"u", "b", "u", "n", "t", "u", "-", "l", "a", "t", "e", "s", "t">>, container |-> <<"u", "b", "u", "n", "t", "u", ":", "2", "2", ".", "0", "4">>],
      [name |-> None, os |-> <<"u", "b", "u", "n", "t", "u", "-", "l", "a", "t", "e", "s", "t">>, container |-> <<"u", "b", "u", "n", "t", "u", ":", "2", "4", ".", "0", "4">>],
      [name |-> None, os |-> <<"u", "b", "u", "n", "t", "u", "-", "l", "a", "t", "e", "s", "t">>, container |-> <<"d", "e", "b", "i", "a", "n", ":", "1", "0", ".", "3">>],
      [name |-> None, os |-> <<"u", "b", "u", "n", "t", "u", "-", "l", "a", "t", "e", "s", "t">>, container |-> <<"d", "e", "b", "i", "a", "n", ":", "1", "1">>],
      [name |-> None, os |-> <<"u", "b", "u", "n", "t", "u", "-", "l", "a", "t", "e", "s", "t">>, container |-> <<"d", "e", "b", "i", "a", "n", ":", "1", "2">>],
      [name |-> <<"c", "e", "n", "t", "o", "s", "9">>, os |-> <<"u", "b", "u", "n", "t", "u", "-", "l", "a", "t", "e", "s", "t">>, container |-> <<"q", "u", "a", "y", ".", "i", "o", "/", "c", "e", "n", "t", "o", "s", "/", "c", "e", "n", "t", "o", "s", ":", "s", "t", "r", "e", "a", "m", "9">>],
      [name |-> <<"m", "a", "c", "o", "s">>, os |-> <<"m", "a", "c", "o", "s", "-", "l", "a", "t", "e", "s", "t">>, container |-> None],
      [name |-> None, os |-> <<"u", "b", "u", "n", "t", "u", "-", "l", "a", "t", "e", "s", "t">>, container |-> <<"f", "e", "d", "o", "r", "a", ":", "3", "8">>],
      [name |-> None, os |-> <<"u", "b", "u", "n", "t", "u", "-", "l", "a", "t", "e", "s", "t">>, container |-> <<"f", "e", "d", "o", "r", "a", ":", "3", "9">>],
      [name |-> None, os |-> <<"u", "b", "u", "n", "t", "u", "-", "l", "a", "t", "e", "s", "t">>, container |-> <<"f", "e", "d", "o", "r", "a", ":", "4", "0">>],
      [name |-> <<"w", "i", "n", "d", "o", "w", "s">>, os |-> <<"w", "i", "n", "d", "o", "w", "s", "-", "l", "a", "t", "e", "s", "t">>, container |-> None]>>

\* what a call on the Target returned: the jobs of a builder, the patterns of
\* asset_patterns, the value of a capability predicate, or the path of the
\* file generate_actions wrote
Returned(op, raised, job, uploader, patterns, value, path) ==
    [op |-> op, raised |-> raised, job |-> job, uploader |-> uploader,
     patterns |-> patterns, value |-> value, file_name |-> path]

\* a Target is constructed, with arguments from the pools or as in TARGETS
InitTarget ==
    /\ \/ \E name \in PoolNames, os \in PoolOs, container \in PoolContainers,
             bootstrap_git \in BOOLEAN, app_image \in BOOLEAN, tagged \in BOOLEAN :
             /\ tgt = Target(name, os, container, bootstrap_git, None, FALSE, app_image, tagged)
             /\ args = [name |-> name, os |-> os, container |-> container]
       \/ \E i \in 1..Len(TARGETS) :
             /\ tgt = TARGETS[i]
             /\ args = TARGETS_args[i]
    /\ out = Returned("none", FALSE, NoJob, NoJob, <<>>, PyNone, None)
    /\ ncalls = 0
    /\ prior = <<>>
    /\ GenIdle
    /\ YvIdle
    /\ CrashIdle
    /\ ProcIdle
    /\ ScriptsIdle

\* pull_request(), continuous() or tag() is called on the Target
CallJobber ==
    /\ ncalls < MaxBuilderCalls
    /\ \E k \in Kinds :
        LET r == jobber(k, tgt)
        IN  /\ tgt' = r.t
            /\ out' = Returned(k, r.raised, r.job, r.uploader, <<>>, PyNone, None)
    /\ ncalls' = ncalls + 1
    /\ UNCHANGED <<args, prior>>
    /\ UNCHANGED <<yv_vars, gen_vars, crash_vars, proc_vars, script_vars>>

\* asset_patterns() is called on the Target
CallAssetPatterns ==
    /\ ncalls < MaxBuilderCalls
    /\ out' = Returned("asset_patterns", FALSE, NoJob, NoJob, asset_patterns(tgt), PyNone, None)
    /\ ncalls' = ncalls + 1
    /\ UNCHANGED <<tgt, args, prior>>
    /\ UNCHANGED <<yv_vars, gen_vars, crash_vars, proc_vars, script_vars>>

NextTarget ==
    \/ CallJobber
    \/ CallAssetPatterns

SpecTarget == InitTarget /\ [][NextTarget]_vars

-----------------------------------------------------------------------------
(* SpecNames: a Target built from a name, an os and a container drawn from    *)
(* bounded sets, or as in the catalog; its capability predicates are called   *)
(* and workflows are generated for it                                         *)

\* a Target is constructed, the other arguments being left at their defaults
\* but for app_image
InitNames ==
    /\ \/ \E name \in PoolNames, os \in PoolOs, container \in PoolContainers,
             app_image \in BOOLEAN :
             /\ tgt = Target(name, os, container, FALSE, None, FALSE, app_image, FALSE)
             /\ args = [name |-> name, os |-> os, container |-> container]
       \/ \E i \in 1..Len(TARGETS) :
             /\ tgt = TARGETS[i]
             /\ args = TARGETS_args[i]
    /\ out = Returned("none", FALSE, NoJob, NoJob, <<>>, PyNone, None)
    /\ ncalls = 0
    /\ prior = <<>>
    /\ GenIdle
    /\ YvIdle
    /\ CrashIdle
    /\ ProcIdle
    /\ ScriptsIdle

\* the capability predicates of a Target
Predicates == {"uses_yum", "uses_apt", "uses_apk", "uses_zypper", "needs_sudo"}

\* a buggy needs_sudo: it looks for the tag separator in the container, and
\* raises TypeError on a Target without container
call_predicate_container(f, t) ==
    IF f = "needs_sudo"
    THEN IF t.container = None
         THEN [raised |-> TRUE, value |-> PyNone, t |-> t]
         ELSE [raised |-> FALSE, value |-> PyBool(FALSE), t |-> t]
    ELSE [raised |-> t.name = None,
          value |-> IF t.name = None THEN PyNone
                    ELSE PyBool(CASE f = "uses_yum" -> uses_yum(t)
                                  [] f = "uses_apt" -> uses_apt(t)
                                  [] f = "uses_apk" -> uses_apk(t)
                                  [] OTHER -> uses_zypper(t)),
          t |-> t]

\* t.f() for a capability predicate f: whether it raised, the value it
\* returned and the Target after the call. The test "x" in self.name raises
\* TypeError when the name is not a str; needs_sudo makes it only on a Target
\* without container
call_predicate(f, t) ==
    LET raises == IF f = "needs_sudo" THEN ~Truthy(t.container) /\ t.name = None
                  ELSE t.name = None
    IN  [raised |-> raises,
         value |-> IF raises THEN PyNone
                   ELSE PyBool(CASE f = "uses_yum" -> uses_yum(t)
                                 [] f = "uses_apt" -> uses_apt(t)
                                 [] f = "uses_apk" -> uses_apk(t)
                                 [] f = "uses_zypper" -> uses_zypper(t)
                                 [] OTHER -> needs_sudo(t)),
         t |-> t]

\* a capability predicate is called on the Target
CallPredicate ==
    /\ ncalls < MaxBuilderCalls
    /\ \E f \in Predicates :
           \E r \in {call_predicate(f, tgt)} :
               /\ tgt' = r.t
               /\ out' = Returned(f, r.raised, NoJob, NoJob, <<>>, r.value, None)
    /\ ncalls' = ncalls + 1
    /\ UNCHANGED <<args, prior>>
    /\ UNCHANGED <<yv_vars, gen_vars, crash_vars, proc_vars, script_vars>>

\* the name of each caller of generate_actions
Generators == {"generate_pr_actions", "continuous_actions", "tag_actions"}

\* the kind a caller of generate_actions generates
kind_of(generator) ==
    IF generator = "generate_pr_actions" THEN "pull_request"
    ELSE IF generator = "continuous_actions" THEN "continuous"
    ELSE "tag"

\* one iteration of the loop of generate_actions is made on the Target, as if
\* it were in the catalog: the path of the file it writes is returned
CallGenerate ==
    /\ ncalls < MaxBuilderCalls
    /\ \E generator \in Generators :
           \E g \in {generate_one(kind_of(generator), tgt)} :
               /\ tgt' = g.original
               /\ out' = Returned(generator, g.raised, g.job, g.uploader, <<>>, PyNone,
                                  IF g.raised THEN None ELSE g.file_name)
    /\ ncalls' = ncalls + 1
    /\ UNCHANGED <<args, prior>>
    /\ UNCHANGED <<yv_vars, gen_vars, crash_vars, proc_vars, script_vars>>

NextNames ==
    \/ CallPredicate
    \/ CallGenerate

SpecNames == InitNames /\ [][NextNames]_vars

-----------------------------------------------------------------------------
(* SpecBuilders: a Target as generate_actions hands it to a jobber, or built  *)
(* from arguments drawn from bounded sets, and the step builders called on it *)

\* the methods of Target that return a list of steps or of patterns
Builders ==
    {"install_system_package", "install_curl", "install_openssh_server",
     "install_newer_compiler", "install_git", "install_rust", "install_system_deps",
     "build_all_release", "test_all", "package", "upload_artifact",
     "upload_artifact_nightly", "upload_asset_nightly", "upload_asset_tag",
     "asset_patterns"}

\* t.f() for a step builder f, with the argument trusted for package and the
\* package name "curl" for install_system_package: whether it raised, the
\* list it returned and the Target after the call. No builder assigns to a
\* field of self, and the list each one fills is created in the call
call_builder(f, trusted, t) ==
    LET raises == f = "install_curl" /\ install_curl_raises(t)
    IN  [op |-> f,
         trusted |-> trusted,
         raised |-> raises,
         steps |-> IF raises \/ f = "asset_patterns" THEN <<>>
                   ELSE CASE f = "install_system_package" -> install_system_package(t, <<"curl">>)
                          [] f = "install_curl" -> install_curl(t)
                          [] f = "install_openssh_server" -> install_openssh_server(t)
                          [] f = "install_newer_compiler" -> install_newer_compiler(t)
                          [] f = "install_git" -> install_git(t)
                          [] f = "install_rust" -> install_rust(t)
                          [] f = "install_system_deps" -> install_system_deps(t)
                          [] f = "build_all_release" -> build_all_release(t)
                          [] f = "test_all" -> test_all(t)
                          [] f = "package" -> package(t, trusted)
                          [] f = "upload_artifact" -> upload_artifact(t)
                          [] f = "upload_artifact_nightly" -> upload_artifact_nightly(t)
                          [] f = "upload_asset_nightly" -> upload_asset_nightly(t)
                          [] OTHER -> upload_asset_tag(t),
         patterns |-> IF f = "asset_patterns" THEN asset_patterns(t) ELSE <<>>,
         t |-> t]

\* a Target of the catalog after generate_actions copied it and set is_tag,
\* or a Target constructed from arguments of the pools
InitBuilders ==
    /\ \/ \E i \in 1..Len(TARGETS), tagged \in BOOLEAN :
             /\ tgt = [TARGETS[i] EXCEPT !.is_tag = tagged]
             /\ args = TARGETS_args[i]
       \/ \E name \in PoolNames, container \in PoolContainers, app_image \in BOOLEAN, tagged \in BOOLEAN :
             /\ tgt = Target(name, <<"u", "b", "u", "n", "t", "u", "-", "l", "a", "t", "e", "s", "t">>, container, FALSE, None, FALSE, app_image, tagged)
             /\ args = [name |-> name, os |-> <<"u", "b", "u", "n", "t", "u", "-", "l", "a", "t", "e", "s", "t">>, container |-> container]
    /\ out = [op |-> "none", trusted |-> FALSE, raised |-> FALSE, steps |-> <<>>, patterns |-> <<>>]
    /\ prior = [out |-> out, tgt |-> tgt]
    /\ ncalls = 0
    /\ GenIdle
    /\ YvIdle
    /\ CrashIdle
    /\ ProcIdle
    /\ ScriptsIdle

\* a step builder is called on the Target
CallBuilder ==
    /\ ncalls < MaxBuilderCalls
    /\ \E f \in Builders, trusted \in BOOLEAN :
           /\ trusted => f = "package"
           /\ \E r \in {call_builder(f, trusted, tgt)} :
                  /\ tgt' = r.t
                  /\ out' = [op |-> r.op, trusted |-> r.trusted, raised |-> r.raised,
                             steps |-> r.steps, patterns |-> r.patterns]
    /\ prior' = [out |-> out, tgt |-> tgt]
    /\ ncalls' = ncalls + 1
    /\ UNCHANGED args
    /\ UNCHANGED <<yv_vars, gen_vars, crash_vars, proc_vars, script_vars>>

NextBuilders == CallBuilder

SpecBuilders == InitBuilders /\ [][NextBuilders]_vars

-----------------------------------------------------------------------------
(* SpecKitty: test-data/kitty-png.py, one call of write_chunked on image data *)
(* and control keys drawn from bounded sets. A bytes object is a sequence of  *)
(* chunks, one chunk for each byte of a base64 payload                        *)

\* how many full chunks of payload the longest image data makes
MaxChunks == 2

\* the number of base64 bytes of a payload
CHUNK == 4096

\* the alphabet of the standard base64 encoding
B64 ==
    <<"A", "B", "C", "D", "E", "F", "G", "H", "I", "J", "K", "L", "M", "N", "O", "P",
      "Q", "R", "S", "T", "U", "V", "W", "X", "Y", "Z", "a", "b", "c", "d", "e", "f",
      "g", "h", "i", "j", "k", "l", "m", "n", "o", "p", "q", "r", "s", "t", "u", "v",
      "w", "x", "y", "z", "0", "1", "2", "3", "4", "5", "6", "7", "8", "9", "+", "/">>

\* standard_b64encode(bytes): each group of three bytes gives four characters
\* of six bits each; a last group of one or two bytes is filled with zero bits
\* and given "=" for the characters that hold no bit of the data
standard_b64encode(bytes) ==
    LET n == Len(bytes)
        byte(i) == IF i <= n THEN bytes[i] ELSE 0
        word(g) == byte(3 * g + 1) * 65536 + byte(3 * g + 2) * 256 + byte(3 * g + 3)
        char(k) ==
            LET g == (k - 1) \div 4
                j == (k - 1) % 4
            IN  IF (j = 2 /\ 3 * g + 2 > n) \/ (j = 3 /\ 3 * g + 3 > n) THEN "="
                ELSE B64[((word(g) \div (64 ^ (3 - j))) % 64) + 1]
    IN  [k \in 1..(4 * ((n + 2) \div 3)) |-> char(k)]

\* serialize_gr_command(**cmd), for a cmd that carries a payload or None
serialize_gr_command(cmd) ==
    LET payload == IF \E i \in 1..Len(cmd) : cmd[i][1] = <<"payload">>
                   THEN DictGet(cmd, <<"payload">>) ELSE None
        rest == SelectSeq(cmd, LAMBDA e : e[1] # <<"payload">>)
    IN  <<"ESC", "_", "G">>
        \o Join(<<",">>, [i \in 1..Len(rest) |-> rest[i][1] \o <<"=">> \o Format(rest[i][2])])
        \o (IF Truthy(payload) THEN <<";">> \o payload ELSE <<>>)
        \o <<"ESC", "\\">>

\* a buggy loop body: m is computed before the chunk is taken off the data
write_chunked_body_m_first(d, cmd) ==
    [written |-> serialize_gr_command(<<<<<<"payload">>, SubSeq(d, 1, IF Len(d) < CHUNK THEN Len(d) ELSE CHUNK)>>,
                                        <<<<"m">>, PyInt(IF d # <<>> THEN 1 ELSE 0)>>>> \o cmd),
     data |-> SubSeq(d, CHUNK + 1, Len(d)),
     cmd |-> <<>>]

\* the body of the loop of write_chunked: what it writes, and the data and
\* the cmd it leaves
write_chunked_body(d, cmd) ==
    LET chunk == SubSeq(d, 1, IF Len(d) < CHUNK THEN Len(d) ELSE CHUNK)
        left == SubSeq(d, CHUNK + 1, Len(d))
        m == IF left # <<>> THEN 1 ELSE 0
    IN  [written |-> serialize_gr_command(<<<<<<"payload">>, chunk>>, <<<<"m">>, PyInt(m)>>>> \o cmd),
         data |-> left,
         cmd |-> <<>>]

\* the lengths of the image data: none, a few bytes, and a byte less than, as
\* many as and a byte more than what fills one to MaxChunks payloads
Lengths == (0..4) \cup {k * ((CHUNK \div 4) * 3) + e : k \in 1..MaxChunks, e \in {-1, 0, 1}}

\* image data of each length, the byte at i being (a * i + b) % 256
Images == {[i \in 1..n |-> (ab[1] * i + ab[2]) % 256] : n \in Lengths, ab \in {<<0, 0>>, <<1, 0>>, <<7, 255>>, <<85, 3>>}}

\* the control keys of the calls of just_print, test_x_y_w_h_c_r and test_cell_offsets
ControlKeys ==
    {<<<<<<"a">>, PyStr(<<"T">>)>>, <<<<"f">>, PyInt(100)>>>>,
     <<<<<<"a">>, PyStr(<<"T">>)>>, <<<<"f">>, PyInt(100)>>, <<<<"y">>, PyInt(200)>>, <<<<"w">>, PyInt(1)>>>>,
     <<<<<<"a">>, PyStr(<<"T">>)>>, <<<<"f">>, PyInt(100)>>, <<<<"h">>, PyInt(2)>>, <<<<"Y">>, PyInt(20)>>>>}

\* write_chunked(**cmd) is about to be called
InitKitty ==
    /\ \E img \in Images, keys \in ControlKeys : call = [data |-> img, cmd |-> keys]
    /\ data = <<>>
    /\ kwargs = <<>>
    /\ written = <<>>
    /\ kitty_pc = "call"
    /\ NautilusIdle
    /\ GenIdle
    /\ YvIdle
    /\ TargetIdle
    /\ CrashIdle
    /\ ProcIdle

\* data = standard_b64encode(cmd.pop('data'))
Encode ==
    /\ kitty_pc = "call"
    /\ \E e \in {standard_b64encode(call.data)} : data' = e
    /\ kwargs' = call.cmd
    /\ kitty_pc' = "while"
    /\ UNCHANGED <<call, written>>
    /\ UNCHANGED <<yv_vars, gen_vars, target_vars, crash_vars, proc_vars, nautilus_vars>>

\* one turn of the loop: a chunk is written and cmd is cleared
WriteChunk ==
    /\ kitty_pc = "while"
    /\ data # <<>>
    /\ \E b \in {write_chunked_body(data, kwargs)} :
           /\ written' = Append(written, b.written)
           /\ data' = b.data
           /\ kwargs' = b.cmd
    /\ UNCHANGED <<call, kitty_pc>>
    /\ UNCHANGED <<yv_vars, gen_vars, target_vars, crash_vars, proc_vars, nautilus_vars>>

\* the loop ends and write_chunked returns
ReturnWriteChunked ==
    /\ kitty_pc = "while"
    /\ data = <<>>
    /\ kitty_pc' = "returned"
    /\ UNCHANGED <<call, data, kwargs, written>>
    /\ UNCHANGED <<yv_vars, gen_vars, target_vars, crash_vars, proc_vars, nautilus_vars>>

NextKitty ==
    \/ Encode
    \/ WriteChunk
    \/ ReturnWriteChunked

\* the interpreter goes on running the call
SpecKitty == InitKitty /\ [][NextKitty]_vars /\ WF_vars(NextKitty)

-----------------------------------------------------------------------------
(* SpecNautilus: assets/wezterm-nautilus.py. Nautilus asks the extension for  *)
(* the menu items of a selection drawn from bounded sets, and the item it got *)
(* is activated                                                               *)

\* how many directories the longest selection holds
MaxSelected == 12

\* a Nautilus.FileInfo: is_directory(), get_location().get_path() and
\* get_parent_location().get_path(); a location that is not on a local file
\* system has the path None
FileInfo(is_directory, path, parent) == [is_directory |-> is_directory, path |-> path, parent |-> parent]

Dir(k) == FileInfo(TRUE, <<"/", "d", ToString(k)>>, <<"/">>)
FileIn(k) == FileInfo(FALSE, <<"/", "d", ToString(k), "/", "f">>, <<"/", "d", ToString(k)>>)
RemoteDir == FileInfo(TRUE, None, <<"/">>)
RemoteFile == FileInfo(FALSE, <<"/", "f">>, None)

\* the selections: every one of up to two files of a pool, and directories,
\* directories each followed by a file in it, and files with remote files in
\* between, up to MaxSelected directories
Selections ==
    LET Pool == {Dir(1), Dir(2), FileIn(1), FileIn(2), RemoteDir, RemoteFile}
    IN  {<<>>}
        \cup {<<x>> : x \in Pool}
        \cup {<<x, y>> : x \in Pool, y \in Pool}
        \cup {[i \in 1..n |-> Dir(i)] : n \in 3..MaxSelected}
        \cup {[i \in 1..n |-> IF i % 2 = 1 THEN Dir((i + 1) \div 2) ELSE FileIn(i \div 2)] : n \in (2 * MaxSelected - 5)..(2 * MaxSelected)}
        \cup {[i \in 1..n |-> IF i % 3 = 0 THEN RemoteFile ELSE FileIn(MaxSelected + 1 - (i % MaxSelected))] : n \in (MaxSelected - 3)..(MaxSelected + 3)}

\* a buggy _paths_to_open: any number of paths is returned
paths_to_open_without_limit(fileinfos) ==
    LET RECURSIVE collect(_, _)
        collect(fs0, ps) ==
            IF fs0 = <<>> THEN ps
            ELSE LET file == Head(fs0)
                     path == IF file.is_directory THEN file.path ELSE file.parent
                 IN  collect(Tail(fs0),
                             IF Truthy(path) /\ ~(\E i \in 1..Len(ps) : ps[i] = path)
                             THEN Append(ps, path) ELSE ps)
    IN  collect(fileinfos, <<>>)

\* _paths_to_open(files)
paths_to_open(fileinfos) ==
    LET RECURSIVE collect(_, _)
        collect(fs0, ps) ==
            IF fs0 = <<>> THEN ps
            ELSE LET file == Head(fs0)
                     path == IF file.is_directory THEN file.path ELSE file.parent
                 IN  collect(Tail(fs0),
                             IF Truthy(path) /\ ~(\E i \in 1..Len(ps) : ps[i] = path)
                             THEN Append(ps, path) ELSE ps)
        found == collect(fileinfos, <<>>)
    IN  IF 10 < Len(found) THEN <<>> ELSE found

\* _make_item(name, paths): the item, and the paths its activate signal hands over
MenuItem(name, ps) == [name |-> name, label |-> "Open in WezTerm", paths |-> ps]

\* a buggy paths[1:]: the first path is kept
paths_after_first_all(ps) == ps

\* paths[1:], the paths the loop opens after _open_new_terminal(paths[0])
paths_after_first(ps) == Tail(ps)

InitNautilus ==
    /\ selection \in Selections
    /\ wezterm \in BOOLEAN
    /\ items = <<>>
    /\ item_paths = <<>>
    /\ subprocesses = <<>>
    /\ todo = <<>>
    /\ nautilus_pc = "idle"
    /\ KittyIdle
    /\ GenIdle
    /\ YvIdle
    /\ TargetIdle
    /\ CrashIdle
    /\ ProcIdle

\* get_file_items(window, files)
GetFileItems ==
    /\ nautilus_pc = "idle"
    /\ \E ps \in {paths_to_open(selection)} :
           items' = IF ps # <<>> THEN <<MenuItem("WezTermNautilus::open_in_wezterm", ps)>> ELSE <<>>
    /\ nautilus_pc' = "menu"
    /\ UNCHANGED <<selection, item_paths, wezterm, subprocesses, todo>>
    /\ UNCHANGED <<yv_vars, gen_vars, target_vars, crash_vars, proc_vars, kitty_vars>>

\* get_background_items(window, file), for the folder that is shown
GetBackgroundItems ==
    /\ nautilus_pc = "idle"
    /\ Len(selection) = 1
    /\ \E ps \in {paths_to_open(<<selection[1]>>)} :
           items' = IF ps # <<>> THEN <<MenuItem("WezTermNautilus::open_folder_in_wezterm", ps)>> ELSE <<>>
    /\ nautilus_pc' = "menu"
    /\ UNCHANGED <<selection, item_paths, wezterm, subprocesses, todo>>
    /\ UNCHANGED <<yv_vars, gen_vars, target_vars, crash_vars, proc_vars, kitty_vars>>

\* the item is activated: _menu_item_activated calls
\* _open_paths_in_new_or_existing_terminal, which runs wezterm cli list
Activate ==
    /\ nautilus_pc = "menu"
    /\ items # <<>>
    /\ item_paths' = items[1].paths
    /\ subprocesses' = Append(subprocesses, <<"wezterm", "cli", "list">>)
    /\ IF wezterm
       THEN /\ todo' = items[1].paths
            /\ nautilus_pc' = "existing"
       ELSE /\ todo' = <<>>
            /\ nautilus_pc' = "new"
    /\ UNCHANGED <<selection, items, wezterm>>
    /\ UNCHANGED <<yv_vars, gen_vars, target_vars, crash_vars, proc_vars, kitty_vars>>

\* _open_new_terminal(paths[0]) and the sleep: the subprocess is launched, or
\* Gio.Subprocess.new or the call of systemd raises
OpenNewTerminal ==
    /\ nautilus_pc = "new"
    /\ \E ok \in BOOLEAN :
           IF ok
           THEN /\ subprocesses' = Append(subprocesses, <<"wezterm", "start", "--cwd">> \o item_paths[1])
                /\ todo' = paths_after_first(item_paths)
                /\ nautilus_pc' = "existing"
           ELSE /\ nautilus_pc' = "raised"
                /\ UNCHANGED <<subprocesses, todo>>
    /\ UNCHANGED <<selection, items, item_paths, wezterm>>
    /\ UNCHANGED <<yv_vars, gen_vars, target_vars, crash_vars, proc_vars, kitty_vars>>

\* one turn of a loop over the paths: _open_in_existing_terminal(path) runs
\* wezterm cli spawn and waits for it; wait_check raises when it fails
OpenInExistingTerminal ==
    /\ nautilus_pc = "existing"
    /\ todo # <<>>
    /\ subprocesses' = Append(subprocesses, <<"wezterm", "cli", "spawn", "--cwd">> \o Head(todo))
    /\ \E ok \in BOOLEAN :
           IF ok
           THEN /\ todo' = Tail(todo)
                /\ nautilus_pc' = "existing"
           ELSE /\ nautilus_pc' = "raised"
                /\ UNCHANGED todo
    /\ UNCHANGED <<selection, items, item_paths, wezterm>>
    /\ UNCHANGED <<yv_vars, gen_vars, target_vars, crash_vars, proc_vars, kitty_vars>>

\* the loop ends and the handler returns
ActivateDone ==
    /\ nautilus_pc = "existing"
    /\ todo = <<>>
    /\ nautilus_pc' = "done"
    /\ UNCHANGED <<selection, items, item_paths, wezterm, subprocesses, todo>>
    /\ UNCHANGED <<yv_vars, gen_vars, target_vars, crash_vars, proc_vars, kitty_vars>>

NextNautilus ==
    \/ GetFileItems
    \/ GetBackgroundItems
    \/ Activate
    \/ OpenNewTerminal
    \/ OpenInExistingTerminal
    \/ ActivateDone

SpecNautilus == InitNautilus /\ [][NextNautilus]_vars

-----------------------------------------------------------------------------
(* SpecYv: yv called once on a value and a depth drawn from bounded sets *)

Alphabet == {"a", " ", "\n", "\r", "\""}

Strings == UNION {[1..n -> Alphabet] : n \in 0..MaxLen}

Values == {PyStr(s) : s \in Strings} \cup {PyBool(TRUE), PyBool(FALSE), PyNone}
          \cup {PyInt(n) : n \in {0, 1, 5}}

InitYv ==
    /\ v \in Values
    /\ depth \in 0..MaxDepth
    /\ result = PyNone
    /\ yv_pc = "call"
    /\ GenIdle
    /\ TargetIdle
    /\ CrashIdle
    /\ ProcIdle
    /\ ScriptsIdle

CallYv ==
    /\ yv_pc = "call"
    /\ result' = yv(v, depth)
    /\ yv_pc' = "returned"
    /\ UNCHANGED <<v, depth>>
    /\ UNCHANGED <<gen_vars, target_vars, crash_vars, proc_vars, script_vars>>

NextYv == CallYv

SpecYv == InitYv /\ [][NextYv]_vars

-----------------------------------------------------------------------------
(* Claims about yv, checked under SpecYv *)

\* the pieces of s between the occurrences of the chunk c
RECURSIVE SplitOn(_, _, _)
SplitOn(s, c, cur) ==
    IF s = <<>> THEN <<cur>>
    ELSE IF Head(s) = c THEN <<cur>> \o SplitOn(Tail(s), c, <<>>)
    ELSE SplitOn(Tail(s), c, Append(cur, Head(s)))

Spaces(n) == [i \in 1..n |-> " "]

MultiLine == yv_pc = "returned" /\ v.type = "str" /\ Contains(v.s, <<"\n">>)
OneLine == yv_pc = "returned" /\ v.type = "str" /\ ~Contains(v.s, <<"\n">>)

\* C5 as stated: a string with a newline is rendered as "|" followed by every
\* line of the value, each on a line of its own and each, whatever its
\* content, preceded by exactly two spaces per level of depth.
C5_EveryLineIndented ==
    MultiLine =>
        LET segs == SplitOn(result.s, "\n", <<>>)
            lines == splitlines(v.s)
        IN  /\ result.type = "str"
            /\ Len(segs) = Len(lines) + 1
            /\ segs[1] = <<"|">>
            /\ \A k \in 1..Len(lines) : segs[k + 1] = Spaces(2 * depth) \o lines[k]

\* C5 as amended: a string with a newline is rendered as "|" followed by every
\* line of the value, each on a line of its own; a line that is not empty is
\* preceded by exactly two spaces per level of depth, and an empty line is
\* emitted empty, with no indentation.
C5_NonEmptyLinesIndented ==
    MultiLine =>
        LET segs == SplitOn(result.s, "\n", <<>>)
            lines == splitlines(v.s)
        IN  /\ result.type = "str"
            /\ Len(segs) = Len(lines) + 1
            /\ segs[1] = <<"|">>
            /\ \A k \in 1..Len(lines) :
                   segs[k + 1] = IF lines[k] = <<>> THEN <<>>
                                 ELSE Spaces(2 * depth) \o lines[k]

\* yv has returned the block for "a", an empty line, "a" at depth 2
C5_Witness ==
    /\ MultiLine
    /\ v.s = <<"a", "\n", "\n", "a">>
    /\ depth = 2
    /\ result.s = <<"|", "\n", " ", " ", " ", " ", "a", "\n", "\n", " ", " ", " ", " ", "a">>

\* C6: a string with a double quote and no newline is returned wrapped in
\* single quotes; a string with neither is returned wrapped in double quotes.
C6_QuoteChoice ==
    OneLine =>
        /\ result.type = "str"
        /\ Contains(v.s, <<"\"">>) => result.s = <<"'">> \o v.s \o <<"'">>
        /\ ~Contains(v.s, <<"\"">>) => result.s = <<"\"">> \o v.s \o <<"\"">>

\* yv has returned 'a"a' for the value a"a
C6_Witness ==
    /\ OneLine
    /\ v.s = <<"a", "\"", "a">>
    /\ result.s = <<"'", "a", "\"", "a", "'">>

\* C7: True gives the text true, False the text false, None the text nil, and
\* a value that is neither a bool, None nor a str is returned unchanged.
C7_Literals ==
    yv_pc = "returned" =>
        /\ v = PyBool(TRUE) => result = PyStr(<<"true">>)
        /\ v = PyBool(FALSE) => result = PyStr(<<"false">>)
        /\ v = PyNone => result = PyStr(<<"nil">>)
        /\ v.type \notin {"bool", "NoneType", "str"} => result = v

\* yv has returned the number 5 for the number 5, and nil for None
C7_Witness ==
    /\ yv_pc = "returned"
    /\ \/ v = PyInt(5) /\ result = PyInt(5)
       \/ v = PyNone /\ result.s = <<"nil">>

-----------------------------------------------------------------------------
(* Claims about a run of the script, checked under Spec *)

\* the names of the steps of a job
StepNames(job) == {job.steps[i].name : i \in 1..Len(job.steps)}

\* the names of the steps that publish a release, or a package to gemfury
PublishingStepNames ==
    {<<"Upload to Nightly Release">>, <<"Upload to Tagged Release">>,
     <<"Create pre-release">>, <<"Upload to gemfury">>}

\* the names of the steps that update a tap or a manifest downstream
TapStepNames ==
    {<<"Checkout homebrew tap">>, <<"Update homebrew tap formula">>,
     <<"Commit homebrew tap changes">>, <<"Checkout linuxbrew tap">>,
     <<"Update linuxbrew tap formula">>, <<"Commit linuxbrew tap changes">>,
     <<"Checkout winget-pkgs">>, <<"Setup email for winget repo">>,
     <<"Setup name for winget repo">>, <<"Create winget manifest and push to fork">>,
     <<"Submit PR">>, <<"Checkout flathub/org.wezfurlong.wezterm">>,
     <<"Create flathub commit and push">>}

\* C1: the workflow written for the pull_request kind of every target of the
\* catalog has no upload job, and neither its build job nor the text of its
\* file names a release-publishing step or a tap or manifest update step.
C1_NoPublishingInPullRequest ==
    \A p \in DOMAIN emitted :
        emitted[p].kind = "pull_request" =>
            /\ emitted[p].uploader = NoJob
            /\ StepNames(emitted[p].job) \cap (PublishingStepNames \cup TapStepNames) = {}
            /\ \A i \in 1..Len(fs[p]) :
                   <<fs[p][i]>> \notin (PublishingStepNames \cup TapStepNames)

\* a run has written the pull_request workflow of every target, and the other
\* kinds of the same run do hold publishing and tap steps
C1_Witness ==
    /\ pc = "exit"
    /\ Cardinality({p \in DOMAIN emitted : emitted[p].kind = "pull_request"}) = Len(TARGETS)
    /\ \E p \in DOMAIN emitted :
           /\ emitted[p].kind = "continuous"
           /\ <<"Upload to Nightly Release">> \in StepNames(emitted[p].uploader)
    /\ \E p \in DOMAIN emitted :
           /\ emitted[p].kind = "tag"
           /\ <<"Commit homebrew tap changes">> \in StepNames(emitted[p].job)
           /\ <<"Upload to Tagged Release">> \in StepNames(emitted[p].uploader)

\* C2: the files at the end of a run of the script, names and contents, are the
\* files at the end of the run before it.
C2_SecondRunSameFiles ==
    \A k \in 1..(Len(history) - 1) : history[k + 1] = history[k]

\* a second run has ended, having removed and written again every generated file
C2_Witness ==
    /\ pc = "exit"
    /\ Len(history) = 2
    /\ removed = DOMAIN emitted
    /\ Cardinality(removed) = 3 * Len(TARGETS)

ExpectedNames ==
    {<<"u", "b", "u", "n", "t", "u", "2", "0", ".", "0", "4">>,
     <<"u", "b", "u", "n", "t", "u", "2", "2", ".", "0", "4">>,
     <<"u", "b", "u", "n", "t", "u", "2", "4", ".", "0", "4">>,
     <<"d", "e", "b", "i", "a", "n", "1", "0", ".", "3">>,
     <<"d", "e", "b", "i", "a", "n", "1", "1">>,
     <<"d", "e", "b", "i", "a", "n", "1", "2">>,
     <<"c", "e", "n", "t", "o", "s", "9">>,
     <<"m", "a", "c", "o", "s">>,
     <<"f", "e", "d", "o", "r", "a", "3", "8">>,
     <<"f", "e", "d", "o", "r", "a", "3", "9">>,
     <<"f", "e", "d", "o", "r", "a", "4", "0">>,
     <<"w", "i", "n", "d", "o", "w", "s">>}

KindSuffixes == {<<>>, <<"_", "c", "o", "n", "t", "i", "n", "u", "o", "u", "s">>, <<"_", "t", "a", "g">>}

\* the paths a run is expected to write: one for each target and kind
ExpectedFiles ==
    {<<".", "g", "i", "t", "h", "u", "b", "/", "w", "o", "r", "k", "f", "l", "o", "w", "s", "/", "g", "e", "n", "_">> \o n \o k \o <<".", "y", "m", "l">> : n \in ExpectedNames, k \in KindSuffixes}

\* C3: when a run has ended, the files that match .github/workflows/gen_*.yml
\* are the expected files of the catalog and no other, whatever the directory
\* held when the run started.
C3_NoStaleFile ==
    pc = "exit" => {p \in DOMAIN fs : GlobMatch(p)} = ExpectedFiles

\* a run has ended that removed a generated file of a target that has left the
\* catalog, in a directory that also holds a file written by hand
C3_Witness ==
    /\ pc = "exit"
    /\ \E p \in removed : p \notin ExpectedFiles
    /\ \E p \in DOMAIN fs : ~GlobMatch(p)

\* the keys of the Cache Rust Dependencies steps of a job
RustCacheKeys(job) ==
    {DictGet(job.steps[i].params, <<"k", "e", "y">>).s :
        i \in {j \in 1..Len(job.steps) : job.steps[j].name = <<"Cache Rust Dependencies">>}}

\* C10 as stated: the Rust dependency cache keys of the build jobs of two
\* targets of the catalog with different names are never equal.
C10_KeysDifferByTarget ==
    \A p, q \in DOMAIN emitted :
        emitted[p].t.name # emitted[q].t.name =>
            RustCacheKeys(emitted[p].job) \cap RustCacheKeys(emitted[q].job) = {}

\* C10, amended: the build job of every target and kind has the one Rust
\* dependency cache key cargo-deps-<hash of the lockfiles>, which names neither
\* the target, its cross-target nor the runner OS, so that the keys of all the
\* targets are equal.
C10_KeyIsLockfileHashOnly ==
    \A p \in DOMAIN emitted :
        RustCacheKeys(emitted[p].job) = {<<"cargo-deps-${{ hashFiles('**/Cargo.lock') }}">>}

\* the workflows of two targets with different names and different
\* cross-targets have been written
C10_Witness ==
    \E p, q \in DOMAIN emitted :
        /\ emitted[p].t.name # emitted[q].t.name
        /\ emitted[p].t.rust_target # emitted[q].t.rust_target
        /\ RustCacheKeys(emitted[p].job) # {}
        /\ RustCacheKeys(emitted[q].job) # {}

-----------------------------------------------------------------------------
(* Claims about the generators called in any order, checked under SpecKinds *)

BUILD_REASON == <<"B", "U", "I", "L", "D", "_", "R", "E", "A", "S", "O", "N">>

\* C4: whatever kinds were generated before, every Target of the catalog has
\* is_tag false and an empty env; the file just written is the file the same
\* target and kind give from the catalog as it was built; and no pull_request
\* or tag workflow has BUILD_REASON in its env or anywhere in its text.
C4_KindsDoNotLeak ==
    /\ Len(targets) = Len(TARGETS)
    /\ \A i \in 1..Len(targets) : ~targets[i].is_tag /\ targets[i].env = <<>>
    /\ (pc \in Kinds /\ idx > 1) =>
           LET g == generate_one(pc, TARGETS[idx - 1])
           IN  fs[g.file_name] = g.text
    /\ \A p \in DOMAIN emitted :
           emitted[p].kind # "continuous" =>
               /\ \A i \in 1..Len(emitted[p].job.env) : emitted[p].job.env[i][1] # BUILD_REASON
               /\ ~Contains(fs[p], BUILD_REASON)

\* the pull_request workflows have all been generated after the continuous
\* ones, whose text does hold BUILD_REASON
C4_Witness ==
    /\ pc = "pull_request"
    /\ idx > Len(targets)
    /\ calls = 2
    /\ \E p \in DOMAIN emitted :
           emitted[p].kind = "continuous" /\ Contains(fs[p], BUILD_REASON)

-----------------------------------------------------------------------------
(* Claims about the builders of one Target, checked under SpecTarget *)

\* a builder of jobs was called on the Target and returned
JobsReturned == out.op \in Kinds /\ ~out.raised

\* the places in a list of steps of the cache steps whose key holds the name
\* of the target and the version of git that is bootstrapped
GitCacheSteps(steps, name) ==
    {i \in 1..Len(steps) :
        /\ steps[i].cls = "CacheStep"
        /\ Contains(DictGet(steps[i].params, <<"k", "e", "y">>).s, name)
        /\ Contains(DictGet(steps[i].params, <<"k", "e", "y">>).s, <<"2", ".", "2", "6", ".", "2">>)}

\* C8: the build job that pull_request, continuous or tag returns for a Target
\* with bootstrap_git has a checkout step, and before every checkout step a
\* cache step whose key holds the name of the target and 2.26.2.
C8_GitCacheBeforeCheckout ==
    (JobsReturned /\ tgt.bootstrap_git) =>
        /\ \E j \in 1..Len(out.job.steps) : out.job.steps[j].cls = "CheckoutStep"
        /\ \A j \in 1..Len(out.job.steps) :
               out.job.steps[j].cls = "CheckoutStep" =>
                   \E i \in GitCacheSteps(out.job.steps, tgt.name) : i < j

\* tag() has returned the jobs of a Target with bootstrap_git in a container
C8_Witness ==
    /\ JobsReturned
    /\ out.op = "tag"
    /\ tgt.bootstrap_git
    /\ Truthy(tgt.container)
    /\ GitCacheSteps(out.job.steps, tgt.name) # {}

\* the texts made of the asset patterns in what the last call returned: the
\* patterns themselves, the path of the Upload artifact steps, and the commands
\* of the Checksum and release upload steps
PatternTexts ==
    IF out.op = "asset_patterns" THEN {out.patterns[i] : i \in 1..Len(out.patterns)}
    ELSE IF JobsReturned
    THEN {DictGet(out.job.steps[i].params, <<"p", "a", "t", "h">>).s :
             i \in {j \in 1..Len(out.job.steps) : out.job.steps[j].name = <<"Upload artifact">>}}
         \cup {out.uploader.steps[i].run :
                 i \in {j \in 1..Len(out.uploader.steps) :
                           out.uploader.steps[j].name \in
                               {<<"Checksum">>, <<"Upload to Nightly Release">>,
                                <<"Upload to Tagged Release">>}}}
    ELSE {}

References(ext) == \E x \in PatternTexts : Contains(x, ext)

Deb == <<".", "d", "e", "b">>
Rpm == <<".", "r", "p", "m">>
Zip == <<".", "z", "i", "p">>
Exe == <<".", "e", "x", "e">>

NameHasWin == Contains(tgt.name, <<"w", "i", "n">>)
NameHasMac == Contains(tgt.name, <<"m", "a", "c">>)
YumFamily == Contains(tgt.name, <<"f", "e", "d", "o", "r", "a">>) \/ Contains(tgt.name, <<"c", "e", "n", "t", "o", "s">>)
ZypperFamily == Contains(tgt.name, <<"s", "u", "s", "e">>)
AptFamily == Contains(tgt.name, <<"u", "b", "u", "n", "t", "u">>) \/ Contains(tgt.name, <<"d", "e", "b", "i", "a", "n">>)

\* asset_patterns, or a builder of jobs, was called on the Target and returned
PatternsReturned == out.op = "asset_patterns" \/ JobsReturned

\* C9 as stated: a name with "win" gives .zip and .exe and neither .deb nor
\* .rpm; a name of the yum family gives .rpm and none of .deb, .zip, .exe; a
\* name of the apt family gives .deb and none of .rpm, .zip, .exe.
C9_EveryFamilyByName ==
    PatternsReturned =>
        /\ NameHasWin =>
               References(Zip) /\ References(Exe) /\ ~References(Deb) /\ ~References(Rpm)
        /\ YumFamily =>
               References(Rpm) /\ ~References(Deb) /\ ~References(Zip) /\ ~References(Exe)
        /\ AptFamily =>
               References(Deb) /\ ~References(Rpm) /\ ~References(Zip) /\ ~References(Exe)

\* C9, amended: the families are tested in the order yum or zypper, "win",
\* "mac", apt, and the first that the name satisfies decides. A yum name gives
\* .rpm and none of .deb, .zip, .exe; a name with "win" that is neither yum nor
\* zypper gives .zip and .exe and neither .deb nor .rpm; an apt name that is
\* neither yum nor zypper and has neither "win" nor "mac" gives .deb and none
\* of .rpm, .zip, .exe.
C9_FirstFamilyDecides ==
    PatternsReturned =>
        /\ YumFamily =>
               References(Rpm) /\ ~References(Deb) /\ ~References(Zip) /\ ~References(Exe)
        /\ (NameHasWin /\ ~YumFamily /\ ~ZypperFamily) =>
               References(Zip) /\ References(Exe) /\ ~References(Deb) /\ ~References(Rpm)
        /\ (AptFamily /\ ~YumFamily /\ ~ZypperFamily /\ ~NameHasWin /\ ~NameHasMac) =>
               References(Deb) /\ ~References(Rpm) /\ ~References(Zip) /\ ~References(Exe)

\* tag() has returned the jobs of a Target whose name is of the yum family and
\* has "win" in it
C9_Witness ==
    /\ JobsReturned
    /\ out.op = "tag"
    /\ YumFamily
    /\ NameHasWin
    /\ References(Rpm)

-----------------------------------------------------------------------------
(* Claims about the jobs of the workflows of a run, checked under Spec *)

\* the part of a text after the first chunk equal to c, empty without one
After(s, c) ==
    LET I == {i \in 1..Len(s) : s[i] = c}
    IN  IF I = {} THEN <<>>
        ELSE SubSeq(s, (CHOOSE i \in I : \A j \in I : i <= j) + 1, Len(s))

\* the part of a text before the first chunk equal to c, all of it without one
Before(s, c) ==
    LET I == {i \in 1..Len(s) : s[i] = c}
    IN  IF I = {} THEN s
        ELSE SubSeq(s, 1, (CHOOSE i \in I : \A j \in I : i <= j) - 1)

\* how many chunks of a text are equal to c
Count(s, c) == Cardinality({i \in 1..Len(s) : s[i] = c})

UbuntuLatest == <<"u", "b", "u", "n", "t", "u", "-", "l", "a", "t", "e", "s", "t">>

\* the text that opens the upload job of a file, up to its first step
UploadHead ==
    <<"\n", "    runs-on: ubuntu-latest", "\n", "    needs: build", "\n",
      "\n", "    steps:", "\n">>

\* C11: every continuous and every tag workflow of a run has an upload job; the
\* upload job of a workflow runs on ubuntu-latest and has no container, both as
\* the Job the builder returned and in the text of the file, where the upload
\* section opens with runs-on: ubuntu-latest and holds no container line.
C11_UploadOnPlainRunner ==
    \A p \in DOMAIN emitted :
        /\ emitted[p].kind \in {"continuous", "tag"} => emitted[p].uploader # NoJob
        /\ emitted[p].uploader # NoJob =>
               /\ emitted[p].uploader.runs_on = UbuntuLatest
               /\ emitted[p].uploader.container = None
               /\ \A up \in {After(fs[p], "  upload:")} :
                      /\ SubSeq(up, 1, Len(UploadHead)) = UploadHead
                      /\ \A i \in 1..Len(up) :
                             up[i] \notin {"container:", "container: ", "    runs-on: "}

\* a run has written the continuous and the tag workflow of a target that
\* builds in a container, with the container line in the build section only
C11_Witness ==
    \E p, q \in DOMAIN emitted :
        /\ emitted[p].kind = "continuous" /\ emitted[q].kind = "tag"
        /\ emitted[p].job.container = <<"f", "e", "d", "o", "r", "a", ":", "3", "9">>
        /\ emitted[q].job.container = <<"f", "e", "d", "o", "r", "a", ":", "3", "9">>
        /\ Count(Before(fs[p], "  upload:"), "container: ") = 1
        /\ Count(Before(fs[q], "  upload:"), "container: ") = 1
        /\ Count(fs[p], "  upload:") = 1 /\ Count(fs[q], "  upload:") = 1

\* C12: the file of every pull_request workflow has the one job build, and the
\* builder returned no upload job; the file of every continuous and every tag
\* workflow has the two jobs build and upload, in this order, each once, and
\* the upload job, and no other, declares needs: build.
C12_JobsOfEachKind ==
    \A p \in DOMAIN emitted :
        /\ SubSeq(After(fs[p], "jobs:"), 1, 2) = <<"\n", "  build:">>
        /\ Count(fs[p], "jobs:") = 1
        /\ Count(fs[p], "  build:") = 1
        /\ Count(Before(fs[p], "  upload:"), "    needs: build") = 0
        /\ emitted[p].job # NoJob
        /\ emitted[p].kind = "pull_request" =>
               /\ emitted[p].uploader = NoJob
               /\ Count(fs[p], "  upload:") = 0
        /\ emitted[p].kind \in {"continuous", "tag"} =>
               /\ emitted[p].uploader # NoJob
               /\ Count(fs[p], "  upload:") = 1
               /\ Count(After(fs[p], "  upload:"), "  build:") = 0
               /\ Count(After(fs[p], "  upload:"), "    needs: build") = 1
               /\ SubSeq(After(fs[p], "  upload:"), 3, 4) = <<"\n", "    needs: build">>

\* a run has ended with the workflows of the three kinds of every target: a
\* third of the files have one job and the others have two
C12_Witness ==
    /\ pc = "exit"
    /\ Cardinality({p \in DOMAIN emitted : Count(fs[p], "  upload:") = 0}) = Len(TARGETS)
    /\ Cardinality({p \in DOMAIN emitted : Count(fs[p], "    needs: build") = 1}) = 2 * Len(TARGETS)

HomebrewStepNames ==
    {<<"Checkout homebrew tap">>, <<"Update homebrew tap formula">>,
     <<"Commit homebrew tap changes">>}

LinuxbrewStepNames ==
    {<<"Checkout linuxbrew tap">>, <<"Update linuxbrew tap formula">>,
     <<"Commit linuxbrew tap changes">>}

WingetStepNames ==
    {<<"Checkout winget-pkgs">>, <<"Setup email for winget repo">>,
     <<"Setup name for winget repo">>, <<"Create winget manifest and push to fork">>,
     <<"Submit PR">>}

FlathubStepNames ==
    {<<"Checkout flathub/org.wezfurlong.wezterm">>, <<"Create flathub commit and push">>,
     <<"Submit PR">>}

\* the step names among the chunks of a text
NamesIn(text, names) == {<<text[i]>> : i \in 1..Len(text)} \cap names

\* the steps of a kind are in a job of a workflow exactly when the test holds
StepsIff(job, names, test) ==
    IF test THEN names \subseteq StepNames(job) ELSE names \cap StepNames(job) = {}

\* C13: no pull_request and no continuous workflow of a run has a tap, winget
\* or flathub step, in its jobs or in the text of its file. In the tag workflow
\* of a target, the build job has the homebrew tap steps exactly when the name
\* of the target contains macos, and the linuxbrew tap steps exactly when it
\* does not and the target has app_image; the upload job has the winget steps
\* exactly when the name contains windows and the flathub steps exactly when
\* the target has app_image; the build job has no winget or flathub step and
\* the upload job no tap step, and the text of the file has every such step in
\* the section of its job.
C13_DownstreamStepsInTagOnly ==
    \A p \in DOMAIN emitted :
        /\ emitted[p].kind # "tag" =>
               /\ StepNames(emitted[p].job) \cap TapStepNames = {}
               /\ StepNames(emitted[p].uploader) \cap TapStepNames = {}
               /\ NamesIn(fs[p], TapStepNames) = {}
        /\ emitted[p].kind = "tag" =>
               /\ StepsIff(emitted[p].job, HomebrewStepNames,
                           Contains(emitted[p].t.name, <<"m", "a", "c", "o", "s">>))
               /\ StepsIff(emitted[p].job, LinuxbrewStepNames,
                           /\ ~Contains(emitted[p].t.name, <<"m", "a", "c", "o", "s">>)
                           /\ emitted[p].t.app_image)
               /\ StepsIff(emitted[p].uploader, WingetStepNames \ {<<"Submit PR">>},
                           Contains(emitted[p].t.name, <<"w", "i", "n", "d", "o", "w", "s">>))
               /\ StepsIff(emitted[p].uploader, FlathubStepNames \ {<<"Submit PR">>},
                           emitted[p].t.app_image)
               /\ StepsIff(emitted[p].uploader, {<<"Submit PR">>},
                           \/ Contains(emitted[p].t.name, <<"w", "i", "n", "d", "o", "w", "s">>)
                           \/ emitted[p].t.app_image)
               /\ StepNames(emitted[p].job) \cap (WingetStepNames \cup FlathubStepNames) = {}
               /\ StepNames(emitted[p].uploader) \cap (HomebrewStepNames \cup LinuxbrewStepNames) = {}
               /\ NamesIn(Before(fs[p], "  upload:"), TapStepNames)
                      = StepNames(emitted[p].job) \cap TapStepNames
               /\ NamesIn(After(fs[p], "  upload:"), TapStepNames)
                      = StepNames(emitted[p].uploader) \cap TapStepNames

\* a run has ended: the tag workflows of macos, of windows and of the AppImage
\* target ubuntu20.04 hold their downstream steps, and the continuous workflows
\* of the same targets have been written
C13_Witness ==
    /\ pc = "exit"
    /\ \E p, q, r \in DOMAIN emitted :
           /\ emitted[p].kind = "tag" /\ emitted[q].kind = "tag" /\ emitted[r].kind = "tag"
           /\ HomebrewStepNames \subseteq NamesIn(Before(fs[p], "  upload:"), TapStepNames)
           /\ WingetStepNames \subseteq NamesIn(After(fs[q], "  upload:"), TapStepNames)
           /\ emitted[r].t.app_image
           /\ LinuxbrewStepNames \subseteq NamesIn(Before(fs[r], "  upload:"), TapStepNames)
           /\ FlathubStepNames \subseteq NamesIn(After(fs[r], "  upload:"), TapStepNames)
    /\ \E p \in DOMAIN emitted :
           emitted[p].kind = "continuous" /\ emitted[p].t.app_image

\* the workflow name in the path of a generated file
NameOfFile(path) == SubSeq(path, 23, Len(path) - 4)

\* the paths of the path filter of a text, in the order they are written: the
\* texts between the first and the second double quote, the third and the
\* fourth, and so on, of the part between paths: and jobs:
PathFilter(text) ==
    \* section: that part; Q: the places of its quotes; Nth(k): the k-th of them
    LET section == After(Before(text, "jobs:"), "    paths:")
        Q == {i \in 1..Len(section) : section[i] = "\""}
        Nth(k) == CHOOSE i \in Q : Cardinality({j \in Q : j <= i}) = k
    IN  [k \in 1..(Cardinality(Q) \div 2) |->
            SubSeq(section, Nth(2 * k - 1) + 1, Nth(2 * k) - 1)]

\* the members of a list
Members(list) == {list[i] : i \in 1..Len(list)}

\* the paths the filter of a workflow is to hold
ExpectedPaths(path, app_image) ==
    {path} \cup Members(TRIGGER_PATHS)
    \cup (IF Contains(NameOfFile(path), <<"w", "i", "n">>) THEN Members(TRIGGER_PATHS_WIN)
          ELSE IF Contains(NameOfFile(path), <<"m", "a", "c", "o", "s">>) THEN Members(TRIGGER_PATHS_MAC)
          ELSE Members(TRIGGER_PATHS_UNIX))
    \cup (IF app_image THEN Members(TRIGGER_PATHS_APPIMAGE) ELSE {})

\* C18: the file of every pull_request and continuous workflow has one paths:
\* filter, whose entries are in ascending order, without a repeat, and are the
\* path of the file itself, the paths of TRIGGER_PATHS, those of one list by
\* the workflow name (Windows for a name with win, else macOS for a name with
\* macos, else Unix) and those of the AppImage list exactly when the target
\* has app_image. The file of every tag workflow has no paths: filter, and its
\* on: section is a push trigger on the tags 20* and nothing else.
C18_PathFilter ==
    \A p \in DOMAIN emitted :
        /\ emitted[p].kind \in {"pull_request", "continuous"} =>
               /\ Count(fs[p], "    paths:") = 1
               /\ \A filter \in {PathFilter(fs[p])} :
                      /\ \A i \in 1..(Len(filter) - 1) : StrLess(filter[i], filter[i + 1])
                      /\ Members(filter) = ExpectedPaths(p, emitted[p].t.app_image)
        /\ emitted[p].kind = "tag" =>
               /\ Count(fs[p], "    paths:") = 0
               /\ After(Before(fs[p], "jobs:"), "on:")
                      = <<"\n", "  push:", "\n", "    tags:", "\n", "      - ", "\"", "20*", "\"",
                          "\n", "\n">>

\* a run has ended: the filters of windows, of macos_continuous and of the
\* AppImage target ubuntu20.04 hold the paths of three different lists, and
\* the tag workflows have been written
C18_Witness ==
    /\ pc = "exit"
    /\ \E p, q, r \in DOMAIN emitted :
           /\ emitted[p].kind = "pull_request" /\ emitted[q].kind = "continuous"
           /\ emitted[r].kind = "pull_request"
           /\ Members(TRIGGER_PATHS_WIN) \subseteq Members(PathFilter(fs[p]))
           /\ Members(TRIGGER_PATHS_MAC) \subseteq Members(PathFilter(fs[q]))
           /\ Members(TRIGGER_PATHS_UNIX \o TRIGGER_PATHS_APPIMAGE) \subseteq Members(PathFilter(fs[r]))
    /\ Cardinality({p \in DOMAIN emitted : emitted[p].kind = "tag"}) = Len(TARGETS)

\* the commands that upload assets to a GitHub release, or create one
ReleaseCommands == {"gh release upload", "bash ci/create-release.sh"}

\* the shell steps of a job whose command uploads to a release or creates one
ReleaseSteps(job) ==
    {i \in 1..Len(job.steps) :
        /\ job.steps[i].cls = "RunStep"
        /\ \E k \in 1..Len(job.steps[i].run) : job.steps[i].run[k] \in ReleaseCommands}

\* C19: in every workflow of a run, the command of every shell step that
\* uploads to a release or creates one starts with bash ci/retry.sh followed
\* by the release command, and in the text of the file every release command
\* stands right after bash ci/retry.sh. These steps are Upload to Nightly
\* Release in the upload job of every continuous workflow, and Create
\* pre-release and Upload to Tagged Release in the upload job of every tag
\* workflow; no build job and no pull_request workflow has one.
C19_ReleaseStepsRetry ==
    \A p \in DOMAIN emitted :
        /\ \A job \in {emitted[p].job, emitted[p].uploader} :
               \A i \in ReleaseSteps(job) :
                   /\ job.steps[i].run[1] = "bash ci/retry.sh "
                   /\ job.steps[i].run[2] \in ReleaseCommands
        /\ \A k \in 1..Len(fs[p]) :
               fs[p][k] \in ReleaseCommands => fs[p][k - 1] = "bash ci/retry.sh "
        /\ ReleaseSteps(emitted[p].job) = {}
        /\ {emitted[p].uploader.steps[i].name : i \in ReleaseSteps(emitted[p].uploader)}
               = CASE emitted[p].kind = "continuous" -> {<<"Upload to Nightly Release">>}
                   [] emitted[p].kind = "tag" ->
                          {<<"Create pre-release">>, <<"Upload to Tagged Release">>}
                   [] OTHER -> {}

\* a run has ended: its 12 continuous files hold one wrapped release command
\* each and its 12 tag files two
C19_Witness ==
    /\ pc = "exit"
    /\ Cardinality({p \in DOMAIN emitted :
                       Count(fs[p], "bash ci/retry.sh ") = 1
                       /\ Count(fs[p], "gh release upload") = 1}) = Len(TARGETS)
    /\ Cardinality({p \in DOMAIN emitted :
                       Count(fs[p], "bash ci/retry.sh ") = 2
                       /\ Count(fs[p], "bash ci/create-release.sh") = 1}) = Len(TARGETS)

-----------------------------------------------------------------------------
(* Claims about the secrets of the jobs of a Target, checked under SpecTarget *)

\* the value is a text that references a secret
ReferencesSecret(x) == x.type = "str" /\ Contains(x.s, <<"${{ secrets.">>)

\* the entries of the env and of the params of a step that reference a secret
SecretEntries(step) ==
    {<<"env", i>> : i \in {j \in 1..Len(step.env) : ReferencesSecret(step.env[j][2])}}
    \cup {<<"params", i>> : i \in {j \in 1..Len(step.params) : ReferencesSecret(step.params[j][2])}}

\* the steps called Package of a job
PackageSteps(job) ==
    {i \in 1..Len(job.steps) : job.steps[i].name = <<"Package">>}

\* the names of the signing secrets of the Package step
MACOS_Names ==
    <<<<"M", "A", "C", "O", "S", "_", "C", "E", "R", "T">>,
      <<"M", "A", "C", "O", "S", "_", "C", "E", "R", "T", "_", "P", "W">>,
      <<"M", "A", "C", "O", "S", "_", "T", "E", "A", "M", "_", "I", "D">>,
      <<"M", "A", "C", "O", "S", "_", "A", "P", "P", "L", "E", "I", "D">>,
      <<"M", "A", "C", "O", "S", "_", "A", "P", "P", "_", "P", "W">>>>

\* C14: the build job pull_request(), continuous() or tag() returns has one
\* Package step. Its env is the five MACOS_* secrets when the builder is
\* continuous or tag, which call package(trusted=True), and the name of the
\* target contains mac; it is empty otherwise. No step of the job
\* pull_request() returns, for the targets of the catalog and for the others,
\* has an env entry or a parameter that references a secret.
C14_SigningSecretsInTrustedKindsOnly ==
    JobsReturned =>
        /\ Cardinality(PackageSteps(out.job)) = 1
        /\ \A i \in PackageSteps(out.job) :
               IF out.op \in {"continuous", "tag"} /\ Contains(tgt.name, <<"m", "a", "c">>)
               THEN /\ DictKeys(out.job.steps[i].env) = MACOS_Names
                    /\ \A k \in 1..Len(MACOS_Names) :
                           out.job.steps[i].env[k][2].s
                               = <<"${{ secrets.">> \o MACOS_Names[k] \o <<" }}">>
               ELSE out.job.steps[i].env = <<>>
        /\ out.op = "pull_request" =>
               /\ out.uploader = NoJob
               /\ \A i \in 1..Len(out.job.steps) : SecretEntries(out.job.steps[i]) = {}

\* the macos target of the catalog has been given to pull_request(), which
\* returned a build job whose Package step has no env and none of whose many
\* steps references a secret
C14_Witness ==
    /\ JobsReturned
    /\ out.op = "pull_request"
    /\ args = TARGETS_args[8]
    /\ Contains(tgt.name, <<"m", "a", "c">>)
    /\ \E i \in PackageSteps(out.job) : out.job.steps[i].env = <<>>
    /\ Len(out.job.steps) > 5

-----------------------------------------------------------------------------
(* Claims about the capability predicates and the names, checked under SpecNames *)

\* C15: every call of uses_yum, uses_apt, uses_apk, uses_zypper or needs_sudo
\* on a Target, with or without a container and whatever its name, returns
\* True or False without raising, and leaves every field of the Target as it was.
C15_PredicatesTotalAndPure ==
    [][(out'.op \in Predicates /\ ncalls' = ncalls + 1) =>
           /\ ~out'.raised
           /\ out'.value \in {PyBool(TRUE), PyBool(FALSE)}
           /\ tgt' = tgt]_vars

\* needs_sudo() has returned, as the second call made on a Target built
\* without a name and without a container
C15_Witness ==
    /\ out.op = "needs_sudo"
    /\ args.name = None /\ args.container = None
    /\ ncalls = 2
    /\ ~out.raised
    /\ out.value.type = "bool"

\* C16 as stated: needs_sudo() returns True on every Target without a
\* container and False on every Target with one.
C16_SudoOnEveryBareVM ==
    (out.op = "needs_sudo" /\ ~out.raised) =>
        (out.value = PyBool(~Truthy(tgt.container)))

\* C16, amended: needs_sudo() returns True exactly when the Target has no
\* container and its name is of the apt family (it contains ubuntu or debian);
\* it returns False on every Target with a container, and on a Target without
\* one whose name is of no apt family, such as macos and windows.
C16_SudoOnBareAptVM ==
    (out.op = "needs_sudo" /\ ~out.raised) =>
        /\ out.value = PyBool(~Truthy(tgt.container) /\ AptFamily)
        /\ Truthy(tgt.container) => out.value = PyBool(FALSE)

\* needs_sudo() has returned False on the macos target of the catalog, which
\* has no container
C16_Witness ==
    /\ out.op = "needs_sudo"
    /\ args = TARGETS_args[8]
    /\ tgt.container = None
    /\ out.value = PyBool(FALSE)

\* the name a Target is to have for the arguments it was constructed with,
\* before the colons are removed
GivenName ==
    IF args.name # None /\ args.name # <<>> THEN args.name
    ELSE IF args.container # None /\ args.container # <<>> THEN args.container
    ELSE args.os

\* the characters of a text other than the colon, in their order
RECURSIVE WithoutColons(_)
WithoutColons(s) ==
    IF s = <<>> THEN <<>>
    ELSE (IF Head(s) = ":" THEN <<>> ELSE <<Head(s)>>) \o WithoutColons(Tail(s))

\* the suffix of the workflow name of each caller of generate_actions
SuffixOf(generator) ==
    IF generator = "generate_pr_actions" THEN <<>>
    ELSE IF generator = "continuous_actions" THEN <<"_", "c", "o", "n", "t", "i", "n", "u", "o", "u", "s">>
    ELSE <<"_", "t", "a", "g">>

\* C17: the name of a Target is the name it was given, or without one its
\* container, or without one its os, with every colon removed; the path of the
\* file generate_actions writes for it is .github/workflows/gen_ followed by
\* the name, by nothing, _continuous or _tag, and by .yml; neither the name nor
\* the path holds a colon.
C17_NameAndPathWithoutColon ==
    /\ tgt.name = WithoutColons(GivenName)
    /\ \A i \in 1..Len(tgt.name) : tgt.name[i] # ":"
    /\ (out.op \in Generators /\ ~out.raised) =>
           /\ out.file_name = <<".", "g", "i", "t", "h", "u", "b", "/", "w", "o", "r", "k", "f", "l", "o", "w", "s", "/", "g", "e", "n", "_">>
                              \o tgt.name \o SuffixOf(out.op) \o <<".", "y", "m", "l">>
           /\ \A i \in 1..Len(out.file_name) : out.file_name[i] # ":"

\* a continuous or tag workflow has been generated for a Target that was given
\* a name with a colon, or no name and a container with a colon
C17_Witness ==
    /\ out.op \in Generators
    /\ ~out.raised
    /\ \E i \in 1..Len(GivenName) : GivenName[i] = ":"
    /\ Len(out.file_name) > Len(tgt.name) + 26

-----------------------------------------------------------------------------
(* Claims about a run that is killed and run again, checked under SpecKill *)

\* what generate_actions writes for each kind and each target of the catalog
Generated == {generate_one(k, TARGETS[i]) : k \in Kinds, i \in 1..Len(TARGETS)}

\* the generated files a run leaves when nothing interrupts it
UninterruptedRun ==
    [p \in {g.file_name : g \in Generated} |->
        (CHOOSE g \in Generated : g.file_name = p).text]

\* the files of a directory whose path has, or has not, the form gen_*.yml
Matching(files) == [p \in {q \in DOMAIN files : GlobMatch(q)} |-> files[p]]
NotMatching(files) == [p \in {q \in DOMAIN files : ~GlobMatch(q)} |-> files[p]]

\* C20: when a run has ended, the files gen_*.yml of the directory, names and
\* contents, are those an uninterrupted run leaves, whether or not the script
\* was killed before, at whatever point, and run again; and no step of a run,
\* of a kill or of a new start changes a file of another name.
C20_RerunAfterKillSameDirectory ==
    /\ [](pc = "exit" => Matching(fs) = UninterruptedRun)
    /\ [][NotMatching(fs') = NotMatching(fs)]_vars

\* a run has ended after a kill that struck in the middle of the writing of a
\* file, in a directory that held stale generated files and a file of another name
C20_Witness ==
    /\ pc = "exit"
    /\ Len(kills) = 1
    /\ kills[1].partial \in DOMAIN UninterruptedRun
    /\ kills[1].idx > 1
    /\ DOMAIN NotMatching(fs) # {}

-----------------------------------------------------------------------------
(* Claims about the sanity check of the written files, checked under SpecYaml *)

\* the path of the file of the i-th target of the catalog for a kind
FileOf(k, i) == file_name(Remove(namer(k, targets[i]), ":"))

\* the place of a kind in the order the script generates the kinds
KindRank(k) == IF k = "pull_request" THEN 1 ELSE IF k = "continuous" THEN 2 ELSE 3

\* C21: where import yaml fails, no exception ends the run, and when the run
\* has ended, with exit code 0, the file of every target and kind has been
\* written, those that are not YAML too.
C21_NoYamlNoCheck ==
    ~yaml =>
        /\ pc # "raised"
        /\ status.exception = ""
        /\ pc = "exit" =>
               /\ status.code = 0
               /\ DOMAIN emitted = {FileOf(k, i) : k \in Kinds, i \in 1..Len(targets)}
               /\ Cardinality(DOMAIN emitted) = 3 * Len(targets)
               /\ \A q \in DOMAIN emitted : q \in DOMAIN fs /\ fs[q] # <<>>

\* a run without the yaml library has ended, having written a file that
\* yaml.safe_load rejects
C21_Witness ==
    /\ ~yaml
    /\ pc = "exit"
    /\ \E q \in DOMAIN emitted : yaml_rejects(fs[q])

\* C22: where import yaml succeeds, the run ends as soon as it has written a
\* file yaml.safe_load rejects: with exit code 1 and an exception whose
\* message names the path of that file, whose workflow name is the last name
\* printed; every other file written in the run is of an earlier kind, or of
\* the same kind and an earlier target, and the run never reaches its end.
C22_AbortOnMalformedFile ==
    yaml =>
        /\ pc # "exit"
        /\ \A q \in DOMAIN emitted : (yaml_rejects(fs[q]) => pc = "raised")
        /\ pc = "raised" =>
               /\ status.code = 1
               /\ status.mark \in DOMAIN emitted
               /\ yaml_rejects(fs[status.mark])
               /\ status.mark = file_name(stdout[Len(stdout)])
               /\ \A q \in DOMAIN emitted \ {status.mark} :
                      \/ KindRank(emitted[q].kind) < KindRank(emitted[status.mark].kind)
                      \/ /\ emitted[q].kind = emitted[status.mark].kind
                         /\ emitted[q].index < emitted[status.mark].index
               /\ ~\E q \in DOMAIN emitted \ {status.mark} : yaml_rejects(fs[q])

\* a run with the yaml library has ended on the file of the second target,
\* after the file of the first and before that of the third
C22_Witness ==
    /\ yaml
    /\ pc = "raised"
    /\ status.mark = FileOf("pull_request", 2)
    /\ DOMAIN emitted = {FileOf("pull_request", 1), FileOf("pull_request", 2)}
    /\ FileOf("pull_request", 3) \notin DOMAIN fs


-----------------------------------------------------------------------------
(* Claims about the step builders, checked under SpecBuilders *)

Sha256 == <<"*", ".", "s", "h", "a", "2", "5", "6">>

\* the run commands of the steps of that name
RunsOf(steps, name) == {steps[i].run : i \in {j \in 1..Len(steps) : steps[j].name = name}}

C24_InstallCurlNeverRaises == ~out.raised

-----------------------------------------------------------------------------
(* Claims about the order of the steps of the generated jobs, checked under Spec *)

RustStepNames ==
    {<<"Install Rustup">>, <<"Setup Toolchain">>, <<"Install Rust (ARM)">>, <<"Install Rust (Intel)">>,
     <<"Install Rust">>, <<"Compile with sccache">>, <<"Cache Rust Dependencies">>, <<"Vendor dependecies">>}

\* the stage of the build a step belongs to, 0 for the steps of no stage
Stage(step) ==
    IF step.name = <<"checkout repo">> THEN 1
    ELSE IF step.name \in RustStepNames THEN 2
    ELSE IF step.name = <<"Install System Deps">> THEN 3
    ELSE IF Len(step.name) = 3 /\ step.name[1] = "Build " THEN 4
    ELSE IF step.name = <<"Test">> THEN 5
    ELSE IF step.name = <<"Package">> THEN 6
    ELSE IF step.name = <<"Upload artifact">> THEN 7
    ELSE 0

\* the places in a list of steps of the steps of a stage
StageAt(steps, n) == {i \in 1..Len(steps) : Stage(steps[i]) = n}

\* C25: in the build job of every file written, the repository is checked
\* out once, before the steps that set up the Rust toolchain and its caches;
\* these come before Install System Deps, which every target but windows has,
\* that before the Build steps, one or two for each of the four crates, these
\* before the one Test step, that before the one Package step, and that before
\* the one Upload artifact step
C25_BuildJobOrder ==
    \A path \in DOMAIN emitted :
        \E stages \in {[i \in 1..Len(emitted[path].job.steps) |-> Stage(emitted[path].job.steps[i])]} :
            /\ \A i, j \in 1..Len(stages) :
                   (i < j /\ stages[i] > 0 /\ stages[j] > 0) => stages[i] <= stages[j]
            /\ \A n \in {1, 5, 6, 7} : Count(stages, n) = 1
            /\ Count(stages, 2) \in {4, 5}
            /\ Count(stages, 3) = (IF Contains(emitted[path].t.name, <<"w", "i", "n">>) THEN 0 ELSE 1)
            /\ Count(stages, 4) \in {Len(bin_crates), 2 * Len(bin_crates)}

\* C25 witness: the script has run to its end and the build jobs of the tag
\* workflows of macos, which builds every crate twice, and of windows, which
\* installs no system dependencies, have been written
C25_Witness ==
    /\ pc = "exit"
    /\ FileOf("tag", 8) \in DOMAIN emitted
    /\ Cardinality(StageAt(emitted[FileOf("tag", 8)].job.steps, 4)) = 2 * Len(bin_crates)
    /\ FileOf("tag", 12) \in DOMAIN emitted
    /\ StageAt(emitted[FileOf("tag", 12)].job.steps, 3) = {}
    /\ StageAt(emitted[FileOf("tag", 12)].job.steps, 7) # {}

\* the places in a list of steps of the steps of that name
At(steps, name) == {i \in 1..Len(steps) : steps[i].name = name}

\* the steps that publish the package files the upload job downloaded
PublishingSteps == {<<"Upload to Nightly Release">>, <<"Upload to Tagged Release">>, <<"Upload to gemfury">>}

\* C26: in the upload job of every continuous and tag file written, the one
\* Download artifact step comes before the Checksum step and before every step
\* that publishes the package files, Upload to gemfury included; and in a tag
\* file Create pre-release comes before Upload to Tagged Release
C26_DownloadBeforePublish ==
    \A path \in DOMAIN emitted :
        emitted[path].kind # "pull_request" =>
            \E steps \in {emitted[path].uploader.steps} :
                /\ Cardinality(At(steps, <<"Download artifact">>)) = 1
                /\ At(steps, <<"Checksum">>) # {}
                /\ \A d \in At(steps, <<"Download artifact">>), i \in 1..Len(steps) :
                       steps[i].name \in PublishingSteps \cup {<<"Checksum">>} => d < i
                /\ emitted[path].kind = "tag" =>
                       /\ At(steps, <<"Create pre-release">>) # {}
                       /\ \A c \in At(steps, <<"Create pre-release">>), u \in At(steps, <<"Upload to Tagged Release">>) : c < u

\* C27: within a run every file is written once: the names printed, one for
\* each file written, differ from each other, and each write adds a path to
\* those written; a run that has ended leaves three files for each target of
\* the catalog, and no other file of the form gen_*.yml
C27_NoFileWrittenTwice ==
    /\ \A i, j \in 1..Len(stdout) : i # j => file_name(stdout[i]) # file_name(stdout[j])
    /\ DOMAIN emitted = {file_name(stdout[i]) : i \in 1..Len(stdout)}
    /\ Cardinality(DOMAIN emitted) = Len(stdout)
    /\ pc = "exit" =>
           /\ Cardinality(DOMAIN emitted) = 3 * Len(TARGETS)
           /\ DOMAIN emitted = {FileOf(k, i) : k \in Kinds, i \in 1..Len(TARGETS)}
           /\ DOMAIN Matching(fs) = DOMAIN emitted

\* C27 witness: a run has ended in a directory that held generated files of an
\* earlier version, and it wrote 36 files
C27_Witness ==
    /\ pc = "exit"
    /\ removed # {}
    /\ Len(stdout) = 36
    /\ Cardinality(DOMAIN emitted) = 36

-----------------------------------------------------------------------------
(* Claims about kitty-png.py, checked under SpecKitty *)

\* the payload of a graphics command: what stands between the semicolon and
\* the closing escape sequence
Payload(w) == SubSeq(After(w, ";"), 1, Len(After(w, ";")) - 2)

\* the control data of a graphics command: what stands between the opening
\* escape sequence and the semicolon
Control(w) == Before(SubSeq(w, 4, Len(w) - 2), ";")

\* the control data that carries these keys
ControlOf(keys) == Join(<<",">>, [i \in 1..Len(keys) |-> keys[i][1] \o <<"=">> \o Format(keys[i][2])])

\* what has been written up to now is as the claim says
ChunksAsClaimed ==
    kitty_pc # "call" =>
        /\ \A i \in 1..Len(written) :
               /\ written[i][1] = "ESC" /\ written[i][Len(written[i]) - 1] = "ESC"
               /\ Len(Payload(written[i])) \in 1..CHUNK
               /\ Control(written[i]) =
                      <<"m", "=", IF i < Len(written) \/ data # <<>> THEN "1" ELSE "0">>
                      \o (IF i = 1 THEN <<",">> \o ControlOf(call.cmd) ELSE <<>>)
        /\ Concat([i \in 1..Len(written) |-> Payload(written[i])]) \o data = standard_b64encode(call.data)
        /\ kitty_pc = "returned" => (data = <<>> /\ (written = <<>> <=> call.data = <<>>))

\* C28: write_chunked returns, and the commands it has written have payloads
\* of 1 to 4096 bytes each that, put together in order, are the base64
\* encoding of the data; every command but the last carries m=1 and the last
\* m=0; the control keys of the caller follow m in the first command and are
\* in no other; for empty data nothing is written
C28_ChunkedWrite == [](ChunksAsClaimed) /\ <>(kitty_pc = "returned")

\* C28 witness: write_chunked has returned from a call with four control keys
\* and data that took three commands, the last with a payload of four bytes
C28_Witness ==
    /\ kitty_pc = "returned"
    /\ Len(call.cmd) = 4
    /\ Len(written) = 3
    /\ Len(Payload(written[1])) = CHUNK
    /\ Len(Payload(written[3])) = 4

-----------------------------------------------------------------------------
(* Claims about wezterm-nautilus.py, checked under SpecNautilus *)

StartIn(p) == <<"wezterm", "start", "--cwd">> \o p
SpawnIn(p) == <<"wezterm", "cli", "spawn", "--cwd">> \o p

\* C29: when the activation handler has returned, every subprocess having
\* succeeded, the subprocesses launched after wezterm cli list are one for
\* each path of the item, in the order of the paths: wezterm cli spawn for
\* every path where an instance was running, and otherwise wezterm start for
\* the first path and wezterm cli spawn for each of the others
C29_EveryPathOpenedOnce ==
    nautilus_pc = "done" =>
        /\ Len(item_paths) >= 1
        /\ subprocesses =
               <<<<"wezterm", "cli", "list">>>>
               \o [i \in 1..Len(item_paths) |->
                      IF ~wezterm /\ i = 1 THEN StartIn(item_paths[i]) ELSE SpawnIn(item_paths[i])]

\* C29 witness: no instance was running, and the handler has returned after
\* opening ten paths
C29_Witness ==
    /\ nautilus_pc = "done"
    /\ ~wezterm
    /\ Len(item_paths) = 10
    /\ subprocesses[2] = StartIn(item_paths[1])
    /\ subprocesses[11] = SpawnIn(item_paths[10])

\* the directory a file of the selection stands for: itself, or its parent
PathOf(file) == IF file.is_directory THEN file.path ELSE file.parent

\* the local paths the selection stands for
DistinctPaths == {PathOf(selection[i]) : i \in 1..Len(selection)} \ {None, <<>>}

\* the place in the selection of the first file that stands for the path
FirstAt(p) == CHOOSE i \in 1..Len(selection) : PathOf(selection[i]) = p /\ \A j \in 1..(i - 1) : PathOf(selection[j]) # p

\* C30: once the extension was asked for the menu of a selection, it has
\* returned no item when the selection stands for no local path or for more
\* than 10 of them, and nothing is opened then; otherwise it has returned one
\* item, whose paths are the directories the selection stands for, each of
\* them once, in the order of their first occurrence in the selection
C30_MenuOfDistinctPaths ==
    nautilus_pc # "idle" =>
        /\ items = <<>> <=> (DistinctPaths = {} \/ Cardinality(DistinctPaths) > 10)
        /\ items = <<>> => subprocesses = <<>>
        /\ items # <<>> =>
               /\ Len(items) = 1
               /\ {items[1].paths[i] : i \in 1..Len(items[1].paths)} = DistinctPaths
               /\ Len(items[1].paths) = Cardinality(DistinctPaths)
               /\ \A a, b \in 1..Len(items[1].paths) :
                      a < b => FirstAt(items[1].paths[a]) < FirstAt(items[1].paths[b])

\* C30 witness: the menu of a selection of 24 files that stands for 12
\* directories was asked for, and no item was returned
C30_Witness ==
    /\ nautilus_pc = "menu"
    /\ Len(selection) = 2 * MaxSelected
    /\ Cardinality(DistinctPaths) > 10
    /\ items = <<>>

=============================================================================
